---- MODULE Spec2Model ----
(***************************************************************************)
(* Rule-based loan approval engine: rules, rule base, conflict resolver,   *)
(* forward and backward chaining, trace logger and the orchestrator.       *)
(***************************************************************************)
EXTENDS Integers, Sequences, FiniteSets, TLC

(***************************************************************************)
(* Python values.  None is the absent value; a string is compared by code  *)
(* point, so every rule identifier used here is given with its code points.*)
(***************************************************************************)
PyNone == "<None>"

\* None as the value of a dict-, tuple- or object-valued field or result.
None == <<>>

RuleIdChars ==
    [R1 |-> <<82, 49>>, R2 |-> <<82, 50>>, R3 |-> <<82, 51>>, R4 |-> <<82, 52>>,
     R5 |-> <<82, 53>>, R6 |-> <<82, 54>>, R7 |-> <<82, 55>>, R8 |-> <<82, 56>>,
     R10 |-> <<82, 49, 48>>, X1 |-> <<88, 49>>]

RECURSIVE SeqLess(_, _)
\* Python's lexicographic order on sequences of integers (str < str).
SeqLess(a, b) ==
    IF b = <<>> THEN FALSE
    ELSE IF a = <<>> THEN TRUE
    ELSE IF Head(a) /= Head(b) THEN Head(a) < Head(b)
    ELSE SeqLess(Tail(a), Tail(b))

StrLess(s, t) == SeqLess(RuleIdChars[s], RuleIdChars[t])

DictGet(d, k, default) == IF k \in DOMAIN d THEN d[k] ELSE default


(***************************************************************************)
(* config.py                                                               *)
(***************************************************************************)
CONFLICT_RESOLUTION_STRATEGY == "priority_specificity"

PRIORITY_LEVELS == [High |-> 3, Medium |-> 2, Low |-> 1]

DECISIONS == <<"Approve Loan", "Approve with Conditions", "Reject Loan", "Manual Review">>

(***************************************************************************)
(* models/rule.py                                                          *)
(***************************************************************************)
Rule(rule_id, antecedents, consequent, priority, specificity) ==
    [rule_id |-> rule_id, antecedents |-> antecedents, consequent |-> consequent,
     priority |-> priority, specificity |-> specificity, fired_count |-> 0]

Cond(attr, operator, value) == [attr |-> attr, operator |-> operator, value |-> value]

\* The str values that facts and condition operands take.
StringValues ==
    {"Employed", "Self-Employed", "Unemployed", "None", "Low", "Medium", "High",
     "n/a", PyNone}

StringReprs == {ToString(s) : s \in StringValues}

\* isinstance(v, str), for the values of StringValues and the ints.
IsStr(v) == ToString(v) \in StringReprs

\* The ordering comparators of Python raise TypeError between a str and an int.
TypeError(a, b) == IsStr(a) /= IsStr(b)

\* Rule._evaluate_condition with the range test of in_range open at both ends.
_evaluate_condition_open_range(applicant, attr, operator, value) ==
    LET applicant_value == applicant[attr] IN
    IF attr \notin DOMAIN applicant THEN FALSE
    ELSE CASE operator = ">" ->
                IF TypeError(applicant_value, value) THEN FALSE ELSE applicant_value > value
           [] operator = ">=" ->
                IF TypeError(applicant_value, value) THEN FALSE ELSE applicant_value >= value
           [] operator = "<" ->
                IF TypeError(applicant_value, value) THEN FALSE ELSE applicant_value < value
           [] operator = "<=" ->
                IF TypeError(applicant_value, value) THEN FALSE ELSE applicant_value <= value
           [] operator = "==" ->
                IF TypeError(applicant_value, value) THEN FALSE ELSE applicant_value = value
           [] operator = "!=" ->
                IF TypeError(applicant_value, value) THEN TRUE ELSE applicant_value /= value
           [] operator = "in_range" ->
                IF TypeError(value[1], applicant_value) THEN FALSE
                ELSE IF ~(value[1] < applicant_value) THEN FALSE
                ELSE IF TypeError(applicant_value, value[2]) THEN FALSE
                ELSE applicant_value < value[2]
           [] OTHER -> FALSE

\* Rule._evaluate_condition: getattr with default None, then the comparator.
\* An attribute whose value is None is one the applicant record does not have.
\* Between a str and an int, == is false and != is true; an ordering
\* comparator raises TypeError, which the except clause of Rule.evaluate turns
\* into the result False of the rule, the same result as a false condition.
_evaluate_condition(applicant, attr, operator, value) ==
    LET applicant_value == applicant[attr] IN
    IF attr \notin DOMAIN applicant THEN FALSE
    ELSE CASE operator = ">" ->
                IF TypeError(applicant_value, value) THEN FALSE ELSE applicant_value > value
           [] operator = ">=" ->
                IF TypeError(applicant_value, value) THEN FALSE ELSE applicant_value >= value
           [] operator = "<" ->
                IF TypeError(applicant_value, value) THEN FALSE ELSE applicant_value < value
           [] operator = "<=" ->
                IF TypeError(applicant_value, value) THEN FALSE ELSE applicant_value <= value
           [] operator = "==" ->
                IF TypeError(applicant_value, value) THEN FALSE ELSE applicant_value = value
           [] operator = "!=" ->
                IF TypeError(applicant_value, value) THEN TRUE ELSE applicant_value /= value
           [] operator = "in_range" ->
                IF TypeError(value[1], applicant_value) THEN FALSE
                ELSE IF ~(value[1] <= applicant_value) THEN FALSE
                ELSE IF TypeError(applicant_value, value[2]) THEN FALSE
                ELSE applicant_value <= value[2]
           [] OTHER -> FALSE

RECURSIVE EvaluateFrom(_, _, _)
\* The loop of Rule.evaluate from condition i on: false at the first
\* unsatisfied condition, true when the conditions are exhausted.
EvaluateFrom(rule, applicant, i) ==
    IF i > Len(rule.antecedents) THEN TRUE
    ELSE LET c == rule.antecedents[i] IN
         IF ~_evaluate_condition(applicant, c.attr, c.operator, c.value) THEN FALSE
         ELSE EvaluateFrom(rule, applicant, i + 1)

RECURSIVE ExaminedFrom(_, _, _)
\* The number of conditions the loop of Rule.evaluate tests from condition i
\* on before it returns.
ExaminedFrom(rule, applicant, i) ==
    IF i > Len(rule.antecedents) THEN 0
    ELSE LET c == rule.antecedents[i] IN
         IF ~_evaluate_condition(applicant, c.attr, c.operator, c.value) THEN 1
         ELSE 1 + ExaminedFrom(rule, applicant, i + 1)

\* Rule.evaluate looking at the first condition only.
evaluate_first_only(rule, applicant) ==
    IF Len(rule.antecedents) = 0 THEN TRUE
    ELSE _evaluate_condition(applicant, rule.antecedents[1].attr,
                             rule.antecedents[1].operator, rule.antecedents[1].value)

evaluate(rule, applicant) == EvaluateFrom(rule, applicant, 1)

\* Rule.fire: the rule after the call, which returns rule.consequent.
fire(rule) == [rule EXCEPT !.fired_count = @ + 1]

(***************************************************************************)
(* engine/rule_base.py                                                     *)
(***************************************************************************)
_initialize_rules ==
    << Rule("R1", << Cond("income", ">", 60000), Cond("credit_score", ">", 750) >>,
            "Approve Loan", "High", 2),
       Rule("R2", << Cond("income", "in_range", <<40000, 60000>>),
                     Cond("credit_score", ">", 700),
                     Cond("existing_debt", "==", "None") >>,
            "Approve with Conditions", "Medium", 3),
       Rule("R3", << Cond("credit_score", "<=", 650), Cond("existing_debt", "==", "High") >>,
            "Reject Loan", "High", 2),
       Rule("R4", << Cond("employment_status", "==", "Unemployed") >>,
            "Reject Loan", "High", 1),
       Rule("R5", << Cond("income", "in_range", <<30000, 50000>>),
                     Cond("credit_score", "in_range", <<600, 700>>) >>,
            "Manual Review", "Low", 2),
       Rule("R6", << Cond("age", "<", 21) >>,
            "Reject Loan", "High", 1),
       Rule("R7", << Cond("dependents", ">", 3), Cond("income", "<", 45000) >>,
            "Manual Review", "Low", 2),
       Rule("R8", << Cond("employment_duration", "<", 1), Cond("credit_score", "<", 700) >>,
            "Manual Review", "Low", 2) >>

\* reset_fired_counts leaving the last rule of the list as it is.
reset_fired_counts_skip_last(rules) ==
    [i \in 1..Len(rules) |->
        IF i < Len(rules) THEN [rules[i] EXCEPT !.fired_count = 0] ELSE rules[i]]

\* RuleBase.reset_fired_counts
reset_fired_counts(rules) == [i \in 1..Len(rules) |-> [rules[i] EXCEPT !.fired_count = 0]]

RECURSIVE GetRuleByIdFrom(_, _, _)
\* The loop of RuleBase.get_rule_by_id from rule i on.
GetRuleByIdFrom(rules, rule_id, i) ==
    IF i > Len(rules) THEN None
    ELSE IF rules[i].rule_id = rule_id THEN rules[i]
    ELSE GetRuleByIdFrom(rules, rule_id, i + 1)

\* RuleBase.get_rule_by_id: the first rule of the identifier, or None.
get_rule_by_id(rules, rule_id) == GetRuleByIdFrom(rules, rule_id, 1)

get_rules_by_consequent(rules, consequent) ==
    SelectSeq(rules, LAMBDA rule : rule.consequent = consequent)

\* RuleBase.add_rule: the rule is appended, whatever its identifier.
add_rule(rules, rule) == Append(rules, rule)

RECURSIVE RemoveFirstFrom(_, _, _)
RemoveFirstFrom(rules, rule_id, i) ==
    IF i > Len(rules) THEN rules
    ELSE IF rules[i].rule_id = rule_id
         THEN SubSeq(rules, 1, i - 1) \o SubSeq(rules, i + 1, Len(rules))
    ELSE RemoveFirstFrom(rules, rule_id, i + 1)

\* remove_rule dropping only the first rule of the identifier.
remove_rule_first_only(rules, rule_id) == RemoveFirstFrom(rules, rule_id, 1)

\* RuleBase.remove_rule: every rule of the identifier is dropped.
remove_rule(rules, rule_id) ==
    LET Keep(rule) == rule.rule_id /= rule_id IN SelectSeq(rules, Keep)

(***************************************************************************)
(* utils/trace_logger.py                                                   *)
(* A logger is [max_depth, trace, start_time, end_time]; an entry is       *)
(* [level, message, rule_id] (its timestamp is not modelled); a message is *)
(* the tuple of the strings its f-string is built from; a time is "t".     *)
(***************************************************************************)
MAX_TRACE_DEPTH == 50

TraceLogger(max_depth) ==
    [max_depth |-> max_depth, trace |-> <<>>, start_time |-> PyNone, end_time |-> PyNone]

Entry(level, message, rule_id) == [level |-> level, message |-> message, rule_id |-> rule_id]

\* The capacity test of TraceLogger.log off by one: one entry too many is stored.
log_off_by_one(tl, level, message, rule_id) ==
    IF Len(tl.trace) <= tl.max_depth
    THEN [tl EXCEPT !.trace = Append(@, Entry(level, message, rule_id))]
    ELSE tl

log(tl, level, message, rule_id) ==
    IF Len(tl.trace) < tl.max_depth
    THEN [tl EXCEPT !.trace = Append(@, Entry(level, message, rule_id))]
    ELSE tl

\* start() without self.trace = []: the entries of the trace are kept.
start_keep_trace(tl, chaining_type, applicant_id) ==
    log([tl EXCEPT !.start_time = "t"],
        "SYSTEM", <<"Starting", chaining_type, applicant_id>>, PyNone)

start(tl, chaining_type, applicant_id) ==
    log([tl EXCEPT !.trace = <<>>, !.start_time = "t"],
        "SYSTEM", <<"Starting", chaining_type, applicant_id>>, PyNone)

log_rule_evaluation(tl, rule_id, matched) ==
    LET status == IF matched THEN "MATCHED" ELSE "NOT MATCHED" IN
    log(tl, "RULE_EVAL", <<rule_id, status>>, rule_id)

log_rule_fired(tl, rule_id, consequent) ==
    log(tl, "RULE_FIRE", <<rule_id, "fired", consequent>>, rule_id)

RuleIds(rules) == [i \in 1..Len(rules) |-> rules[i].rule_id]

log_conflict(tl, conflicting_rules, winner) ==
    log(tl, "CONFLICT",
        <<"Conflict between">> \o RuleIds(conflicting_rules) \o <<"Winner", winner.rule_id>>,
        PyNone)

\* log_decision subtracts start_time from end_time before it logs: with no
\* start_time (no start() yet) that raises TypeError and nothing is logged.
log_decision(tl, decision) ==
    LET t2 == [tl EXCEPT !.end_time = "t"] IN
    IF tl.start_time = PyNone THEN t2
    ELSE log(t2, "DECISION", <<"Final Decision", decision>>, PyNone)

CountLevel(trace, level) == Len(SelectSeq(trace, LAMBDA entry : entry.level = level))

get_summary(tl) ==
    [total_entries |-> Len(tl.trace),
     rules_fired |-> CountLevel(tl.trace, "RULE_FIRE"),
     conflicts_resolved |-> CountLevel(tl.trace, "CONFLICT"),
     trace |-> tl.trace]

clear(tl) == [tl EXCEPT !.trace = <<>>, !.start_time = PyNone, !.end_time = PyNone]

(***************************************************************************)
(* engine/conflict_resolver.py                                             *)
(***************************************************************************)
\* Python's a > b on two (int, int, str) tuples: the first differing
\* component decides.
TupleGreater(a, b) ==
    IF a[1] /= b[1] THEN a[1] > b[1]
    ELSE IF a[2] /= b[2] THEN a[2] > b[2]
    ELSE IF a[3] /= b[3] THEN StrLess(b[3], a[3])
    ELSE FALSE

RECURSIVE MaxFrom(_, _, _)
\* Python's max(rules, key=...): the first item whose key no later item exceeds.
MaxFrom(keys, i, best) ==
    IF i > Len(keys) THEN best
    ELSE MaxFrom(keys, i + 1, IF TupleGreater(keys[i], keys[best]) THEN i ELSE best)

PyMax(rules, keys) == rules[MaxFrom(keys, 2, 1)]

\* _resolve_by_priority with the priority level left out of the key.
_resolve_by_priority_no_level(rules) ==
    PyMax(rules, [i \in 1..Len(rules) |->
        <<0, rules[i].specificity, rules[i].rule_id>>])

_resolve_by_priority(rules) ==
    PyMax(rules, [i \in 1..Len(rules) |->
        <<DictGet(PRIORITY_LEVELS, rules[i].priority, 0),
          rules[i].specificity,
          rules[i].rule_id>>])

\* _resolve_by_specificity with the rule identifier left out of the key.
_resolve_by_specificity_no_id(rules) ==
    PyMax(rules, [i \in 1..Len(rules) |->
        <<rules[i].specificity,
          DictGet(PRIORITY_LEVELS, rules[i].priority, 0),
          "R1">>])

_resolve_by_specificity(rules) ==
    PyMax(rules, [i \in 1..Len(rules) |->
        <<rules[i].specificity,
          DictGet(PRIORITY_LEVELS, rules[i].priority, 0),
          rules[i].rule_id>>])

_resolve_by_priority_specificity(rules) ==
    PyMax(rules, [i \in 1..Len(rules) |->
        <<DictGet(PRIORITY_LEVELS, rules[i].priority, 0),
          rules[i].specificity,
          rules[i].rule_id>>])

\* The end of resolve: the winner is logged and returned.
ResolveReturn(tl, fired_rules, winner) ==
    [winner |-> winner, tl |-> log_conflict(tl, fired_rules, winner)]

\* ConflictResolver.resolve: the winner (None for no candidate) and the
\* logger after the two CONFLICT entries of a real conflict.  The logger is
\* always given, as by the two chainers.
resolve(strategy, fired_rules, tl) ==
    IF Len(fired_rules) = 0 THEN [winner |-> PyNone, tl |-> tl]
    ELSE IF Len(fired_rules) = 1 THEN [winner |-> fired_rules[1], tl |-> tl]
    ELSE ResolveReturn(
            log(tl, "CONFLICT", <<"Multiple rules fired">> \o RuleIds(fired_rules), PyNone),
            fired_rules,
            CASE strategy = "priority" -> _resolve_by_priority(fired_rules)
              [] strategy = "specificity" -> _resolve_by_specificity(fired_rules)
              [] strategy = "priority_specificity" ->
                    _resolve_by_priority_specificity(fired_rules)
              [] OTHER -> fired_rules[1])

decision_priority ==
    ("Reject Loan" :> 4) @@ ("Manual Review" :> 3) @@
    ("Approve with Conditions" :> 2) @@ ("Approve Loan" :> 1)

\* A score of resolve_by_decision: the int -1 it starts from, or a tuple.
PyInt(n) == [type |-> "int", v |-> <<n>>]
PyTuple(t) == [type |-> "tuple", v |-> t]

\* Python 3 orders an int and a tuple by raising TypeError.
ScoreTypeError(a, b) == a.type /= b.type

ScoreGreater(a, b) ==
    IF a.v[1] /= b.v[1] THEN a.v[1] > b.v[1]
    ELSE IF a.v[2] /= b.v[2] THEN a.v[2] > b.v[2]
    ELSE a.v[3] > b.v[3]

\* decision_score of resolve_by_decision for a group and its best rule.
DecisionScore(decision, best_rule) ==
    PyTuple(<<DictGet(decision_priority, decision, 0),
              DictGet(PRIORITY_LEVELS, best_rule.priority, 0),
              best_rule.specificity>>)

RECURSIVE ResolveByDecisionFrom(_, _, _, _, _, _)
RECURSIVE ResolveByDecisionItem(_, _, _, _, _, _, _)
\* The body of the loop of resolve_by_decision for a non-empty group, r being
\* what resolve returned for it.  A TypeError raised by the comparison of the
\* scores is caught and the loop continues with the next item, best_score
\* and best_decision as they were.
ResolveByDecisionItem(strategy, items, i, best_decision, best_score, decision_score, r) ==
    IF ScoreTypeError(decision_score, best_score)
    THEN ResolveByDecisionFrom(strategy, items, i + 1, best_decision, best_score, r.tl)
    ELSE IF ScoreGreater(decision_score, best_score)
    THEN ResolveByDecisionFrom(strategy, items, i + 1, items[i][1], decision_score, r.tl)
    ELSE ResolveByDecisionFrom(strategy, items, i + 1, best_decision, best_score, r.tl)

\* The loop of resolve_by_decision over the dict's items <<decision, rules>>
\* from item i on.  An empty group is skipped.
ResolveByDecisionFrom(strategy, items, i, best_decision, best_score, tl) ==
    IF i > Len(items) THEN [best_decision |-> best_decision, tl |-> tl]
    ELSE IF Len(items[i][2]) = 0
    THEN ResolveByDecisionFrom(strategy, items, i + 1, best_decision, best_score, tl)
    ELSE ResolveByDecisionItem(strategy, items, i, best_decision, best_score,
            DecisionScore(items[i][1], resolve(strategy, items[i][2], tl).winner),
            resolve(strategy, items[i][2], tl))

\* return best_decision or 'Manual Review'
OrManualReview(r) ==
    [decision |-> IF r.best_decision \in {PyNone, ""} THEN "Manual Review" ELSE r.best_decision,
     tl |-> r.tl]

\* resolve_by_decision over a dict given as its items in insertion order,
\* each <<decision, rules>>.
resolve_by_decision(strategy, rules_by_decision, tl) ==
    OrManualReview(ResolveByDecisionFrom(strategy, rules_by_decision, 1, PyNone, PyInt(-1), tl))

(***************************************************************************)
(* models/applicant.py                                                     *)
(***************************************************************************)
Applicant(applicant_id, income, credit_score, employment_status, employment_duration, age, dependents, existing_debt) ==
    [applicant_id |-> applicant_id, income |-> income, credit_score |-> credit_score,
     employment_status |-> employment_status,
     employment_duration |-> employment_duration, age |-> age,
     dependents |-> dependents, existing_debt |-> existing_debt,
     decision |-> PyNone, reasoning_trace |-> <<>>]

\* set_decision that keeps a decision already written.
set_decision_first_only(applicant, decision, trace) ==
    IF applicant.decision /= PyNone THEN applicant
    ELSE [applicant EXCEPT !.decision = decision,
                           !.reasoning_trace = IF Len(trace) > 0 THEN trace ELSE @]

\* set_decision(decision, trace): an empty or missing trace leaves
\* reasoning_trace as it is.
set_decision(applicant, decision, trace) ==
    [applicant EXCEPT !.decision = decision,
                      !.reasoning_trace = IF Len(trace) > 0 THEN trace ELSE @]

(***************************************************************************)
(* engine/forward_chaining.py                                              *)
(* A dict decision -> rules is the sequence of its items <<decision,       *)
(* rules>> in insertion order.                                             *)
(***************************************************************************)
DictKeys(items) == [i \in 1..Len(items) |-> items[i][1]]

HasKey(items, key) == \E i \in 1..Len(items) : items[i][1] = key

\* decisions[key].append(rule), after decisions[key] = [] for a new key.
DictAppend(items, key, rule) ==
    IF HasKey(items, key)
    THEN [i \in 1..Len(items) |->
            IF items[i][1] = key THEN <<key, Append(items[i][2], rule)>> ELSE items[i]]
    ELSE Append(items, <<key, <<rule>> >>)

\* The check of rule_id against the fired rules finding nothing.
HasRuleId_never(rules, rule_id) == FALSE

HasRuleId(rules, rule_id) == \E i \in 1..Len(rules) : rules[i].rule_id = rule_id

RECURSIVE FcPass(_, _, _, _, _, _, _)
\* One pass of the for loop of infer over the rule base, from rule j on.
FcPass(rules, applicant, j, rules_fired, this_iteration, decisions, tl) ==
    IF j > Len(rules)
    THEN [this_iteration |-> this_iteration, decisions |-> decisions, tl |-> tl]
    ELSE LET rule == rules[j] IN
         IF HasRuleId(rules_fired, rule.rule_id)
         THEN FcPass(rules, applicant, j + 1, rules_fired, this_iteration, decisions, tl)
         ELSE IF evaluate(rule, applicant)
         THEN FcPass(rules, applicant, j + 1, rules_fired,
                     Append(this_iteration, rule),
                     DictAppend(decisions, rule.consequent, rule),
                     log_rule_fired(log_rule_evaluation(tl, rule.rule_id, TRUE),
                                    rule.rule_id, rule.consequent))
         ELSE FcPass(rules, applicant, j + 1, rules_fired, this_iteration, decisions,
                     log_rule_evaluation(tl, rule.rule_id, FALSE))

RECURSIVE FcLoop(_, _, _, _, _, _)
RECURSIVE FcLoopEnd(_, _, _, _, _)
\* The end of one iteration of the while loop, p being what the pass did:
\* rules_fired is extended, and the loop breaks when the pass fired nothing.
FcLoopEnd(rules, applicant, iteration, rules_fired, p) ==
    IF Len(p.this_iteration) = 0
    THEN [iteration |-> iteration, rules_fired |-> rules_fired,
          decisions |-> p.decisions, tl |-> p.tl]
    ELSE FcLoop(rules, applicant, iteration, rules_fired \o p.this_iteration,
                p.decisions, p.tl)

\* The while loop of infer: passes until one fires nothing or the cap
\* max_iterations = 2 * len(rules) is reached.
FcLoop(rules, applicant, iteration, rules_fired, decisions, tl) ==
    IF ~(iteration < Len(rules) * 2)
    THEN [iteration |-> iteration, rules_fired |-> rules_fired,
          decisions |-> decisions, tl |-> tl]
    ELSE FcLoopEnd(rules, applicant, iteration + 1, rules_fired,
                   FcPass(rules, applicant, 1, rules_fired, <<>>, decisions, tl))

\* resolve_by_decision's result as the decision of infer.
Arbitrated(r) == [decision |-> r.decision, tl |-> r.tl, arbitrated |-> TRUE]

\* The decision of infer with a single derived decision also sent to the
\* conflict resolver's decision-level arbitration.
FcDecide_always_arbitrate(strategy, decisions, tl) ==
    IF Len(decisions) >= 1
    THEN Arbitrated(resolve_by_decision(strategy, decisions, tl))
    ELSE [decision |-> "Manual Review", tl |-> tl, arbitrated |-> FALSE]

\* The decision of infer after the loop; arbitrated records whether
\* resolve_by_decision was called.
FcDecide(strategy, decisions, tl) ==
    IF Len(decisions) > 1
    THEN Arbitrated(resolve_by_decision(strategy, decisions, tl))
    ELSE IF Len(decisions) = 1
    THEN [decision |-> DictKeys(decisions)[1], tl |-> tl, arbitrated |-> FALSE]
    ELSE [decision |-> "Manual Review", tl |-> tl, arbitrated |-> FALSE]

\* The end of infer: the summary is taken, the decision and the trace are
\* written to the applicant, and decision and summary are returned (here with
\* the logger and the applicant as the call leaves them, and what the run did).
FcReturn(applicant, l, d, tl) ==
    [decision |-> d.decision, trace |-> get_summary(tl), tl |-> tl,
     applicant |-> set_decision(applicant, d.decision, get_summary(tl).trace),
     rules_fired |-> RuleIds(l.rules_fired), iteration |-> l.iteration,
     arbitrated |-> d.arbitrated]

\* infer from log_decision on, d being the decision reached.
FcConclude(applicant, l, d) == FcReturn(applicant, l, d, log_decision(d.tl, d.decision))

\* infer after the while loop, l being what the loop left.
FcAfterLoop(strategy, applicant, l) ==
    FcConclude(applicant, l, FcDecide(strategy, l.decisions, l.tl))

\* ForwardChaining.infer
ForwardInfer(rules, strategy, tl, applicant) ==
    FcAfterLoop(strategy, applicant,
        FcLoop(rules, applicant, 0, <<>>, <<>>,
               log(start(tl, "Forward Chaining", applicant.applicant_id),
                   "SYSTEM", <<"Initial facts", applicant.applicant_id>>, PyNone)))

(***************************************************************************)
(* engine/backward_chaining.py                                             *)
(* The chainer's fields are bc = [proven_goals, failed_goals, tl].         *)
(***************************************************************************)
\* The goals with Approve Loan tried before Reject Loan.
goals_approve_first ==
    <<"Approve Loan", "Reject Loan", "Approve with Conditions", "Manual Review">>

\* The goals of infer with Manual Review tried first as well as last.
goals_manual_review_twice ==
    <<"Manual Review", "Reject Loan", "Approve Loan", "Approve with Conditions", "Manual Review">>

goals == <<"Reject Loan", "Approve Loan", "Approve with Conditions", "Manual Review">>

MaxRecursionDepth == 10

Indent(depth) == [i \in 1..depth |-> "  "]

RECURSIVE BcCheckRules(_, _, _, _, _, _, _)
\* The for loop of _prove_goal over rules_for_goal, from rule i on.
BcCheckRules(rules_for_goal, applicant, goal, depth, i, satisfied_rules, tl) ==
    IF i > Len(rules_for_goal) THEN [satisfied_rules |-> satisfied_rules, tl |-> tl]
    ELSE LET rule == rules_for_goal[i]
             tl1 == log(tl, "SYSTEM", Indent(depth) \o <<"Checking rule", rule.rule_id>>, PyNone)
         IN IF evaluate(rule, applicant)
            THEN BcCheckRules(rules_for_goal, applicant, goal, depth, i + 1,
                              Append(satisfied_rules, rule),
                              log_rule_fired(log_rule_evaluation(tl1, rule.rule_id, TRUE),
                                             rule.rule_id, goal))
            ELSE BcCheckRules(rules_for_goal, applicant, goal, depth, i + 1,
                              satisfied_rules,
                              log_rule_evaluation(tl1, rule.rule_id, FALSE))

\* The end of _prove_goal for a goal some rule satisfies, r being the winning
\* rule and the logger after the conflict resolution.
Proven(bc, goal, depth, r) ==
    [result |-> TRUE,
     bc |-> [bc EXCEPT !.proven_goals = @ \cup {goal},
                       !.tl = log(r.tl, "SYSTEM",
                                  Indent(depth) \o
                                  <<"Goal", goal, "proven by rule", r.winner.rule_id>>,
                                  PyNone)]]

\* _prove_goal after the rules for the goal were checked, c being the
\* satisfied rules and the logger.
ProveChecked(strategy, bc, goal, depth, c) ==
    IF Len(c.satisfied_rules) > 0
    THEN Proven(bc, goal, depth,
                IF Len(c.satisfied_rules) > 1
                THEN resolve(strategy, c.satisfied_rules, c.tl)
                ELSE [winner |-> c.satisfied_rules[1], tl |-> c.tl])
    ELSE [result |-> FALSE,
          bc |-> [bc EXCEPT !.failed_goals = @ \cup {goal},
                            !.tl = log(c.tl, "SYSTEM",
                                       Indent(depth) \o <<"Goal", goal, "could not be proven">>,
                                       PyNone)]]

\* _prove_goal from "Find rules that conclude with this goal" on.
ProveByRules(rules_for_goal, strategy, bc, goal, applicant, depth, tl) ==
    IF Len(rules_for_goal) = 0
    THEN [result |-> FALSE,
          bc |-> [bc EXCEPT !.failed_goals = @ \cup {goal},
                            !.tl = log(tl, "SYSTEM",
                                       Indent(depth) \o <<"No rules found for goal", goal>>,
                                       PyNone)]]
    ELSE ProveChecked(strategy, bc, goal, depth,
                      BcCheckRules(rules_for_goal, applicant, goal, depth, 1, <<>>, tl))

\* BackwardChaining._prove_goal: its result and the chainer's fields after it.
_prove_goal(rules, strategy, bc, goal, applicant, depth) ==
    IF goal \in bc.proven_goals
    THEN [result |-> TRUE,
          bc |-> [bc EXCEPT !.tl = log(@, "SYSTEM",
                      Indent(depth) \o <<"Goal already proven", goal>>, PyNone)]]
    ELSE IF goal \in bc.failed_goals
    THEN [result |-> FALSE,
          bc |-> [bc EXCEPT !.tl = log(@, "SYSTEM",
                      Indent(depth) \o <<"Goal already failed", goal>>, PyNone)]]
    ELSE IF depth > MaxRecursionDepth
    THEN [result |-> FALSE,
          bc |-> [bc EXCEPT !.tl = log(@, "SYSTEM",
                      Indent(depth) \o <<"Max recursion depth reached">>, PyNone)]]
    ELSE ProveByRules(get_rules_by_consequent(rules, goal), strategy, bc, goal, applicant,
                      depth,
                      log(bc.tl, "SYSTEM", Indent(depth) \o <<"Proving goal", goal>>, PyNone))

RECURSIVE BcLoop(_, _, _, _, _)
RECURSIVE BcLoopEnd(_, _, _, _, _)
\* The body of the for loop of infer after _prove_goal returned p: a proven
\* goal is the decision (logged, then break).
BcLoopEnd(rules, strategy, applicant, i, p) ==
    IF p.result
    THEN [final_decision |-> goals[i],
          bc |-> [p.bc EXCEPT !.tl = log_decision(@, goals[i])]]
    ELSE BcLoop(rules, strategy, p.bc, applicant, i + 1)

\* The for loop of infer over goals, from goal i on; final_decision is None
\* when the goals are exhausted.
BcLoop(rules, strategy, bc, applicant, i) ==
    IF i > Len(goals) THEN [final_decision |-> PyNone, bc |-> bc]
    ELSE BcLoopEnd(rules, strategy, applicant, i,
            _prove_goal(rules, strategy,
                        [bc EXCEPT !.tl = log(@, "SYSTEM",
                                              <<"Attempting to prove goal", goals[i]>>, PyNone)],
                        goals[i], applicant, 0))

\* The end of infer: the summary is taken, the decision and the trace are
\* written to the applicant, and decision and summary are returned (here with
\* the chainer's fields and the applicant as the call leaves them).
BcReturn(applicant, final_decision, bc) ==
    [decision |-> final_decision, trace |-> get_summary(bc.tl), bc |-> bc,
     applicant |-> set_decision(applicant, final_decision, get_summary(bc.tl).trace)]

\* infer after the for loop: Manual Review when no goal was proven.
BcAfterLoop(applicant, l) ==
    IF l.final_decision = PyNone
    THEN BcReturn(applicant, "Manual Review",
                  [l.bc EXCEPT !.tl = log_decision(@, "Manual Review")])
    ELSE BcReturn(applicant, l.final_decision, l.bc)

\* infer without the reset of proven_goals and failed_goals.
BackwardInfer_keep_goals(rules, strategy, bc, applicant) ==
    BcAfterLoop(applicant,
        BcLoop(rules, strategy,
               [bc EXCEPT !.tl = start(bc.tl, "Backward Chaining", applicant.applicant_id)],
               applicant, 1))

\* BackwardChaining.infer
BackwardInfer(rules, strategy, bc, applicant) ==
    BcAfterLoop(applicant,
        BcLoop(rules, strategy,
               [proven_goals |-> {}, failed_goals |-> {},
                tl |-> start(bc.tl, "Backward Chaining", applicant.applicant_id)],
               applicant, 1))

(***************************************************************************)
(* engine/rule_engine.py                                                   *)
(***************************************************************************)
ChainingTypes == {"forward", "backward", "both"}

Strategies == {"priority", "specificity", "priority_specificity", "round_robin"}

\* The strings change_conflict_strategy is called with: the names above and
\* the empty string.
StrategyStrings == Strategies \cup {""}

\* change_conflict_strategy that keeps the current strategy when the new name
\* is not one the resolver dispatches on.
change_conflict_strategy_dispatched_only(current, new_strategy) ==
    IF new_strategy \in {"priority", "specificity", "priority_specificity"}
    THEN new_strategy ELSE current

\* RuleEngine.change_conflict_strategy: the resolver's strategy after the call.
change_conflict_strategy(current, new_strategy) == new_strategy

\* The results dict evaluate_applicant starts from.
InitResults(a) ==
    [applicant_id |-> a.applicant_id, applicant_data |-> a,
     forward_chaining |-> None, backward_chaining |-> None,
     final_decision |-> PyNone, reasoning |-> None]

\* The disagreement branch of evaluate_applicant with the comparison turned
\* round: the lower precedence wins.
Disagree_lower_wins(fc_decision, bc_decision) ==
    IF decision_priority[fc_decision] <= decision_priority[bc_decision]
    THEN fc_decision
    ELSE bc_decision

\* The disagreement branch of evaluate_applicant: the higher precedence wins.
Disagree(fc_decision, bc_decision) ==
    IF decision_priority[fc_decision] >= decision_priority[bc_decision]
    THEN fc_decision
    ELSE bc_decision

\* "Determine final decision" of evaluate_applicant raises KeyError: the two
\* decisions differ and one of them, looked up in decision_priority, is not a
\* key of it.
DetermineRaises(ct, res) ==
    /\ ct = "both"
    /\ res.forward_chaining[1].decision /= res.backward_chaining[1].decision
    /\ \/ res.forward_chaining[1].decision \notin DOMAIN decision_priority
       \/ res.backward_chaining[1].decision \notin DOMAIN decision_priority

\* "Determine final decision" taking the forward decision whatever the
\* chaining type and the backward decision.
Determine_forward_only(ct, res) ==
    [res EXCEPT !.final_decision =
        IF ct = "backward" THEN res.backward_chaining[1].decision
        ELSE res.forward_chaining[1].decision]

\* "Determine final decision" of evaluate_applicant: the results dict with
\* final_decision and reasoning filled in.
Determine(ct, res) ==
    IF ct = "forward"
    THEN [res EXCEPT !.final_decision = res.forward_chaining[1].decision]
    ELSE IF ct = "backward"
    THEN [res EXCEPT !.final_decision = res.backward_chaining[1].decision]
    ELSE LET fc_decision == res.forward_chaining[1].decision
             bc_decision == res.backward_chaining[1].decision
         IN IF fc_decision = bc_decision
            THEN [res EXCEPT !.final_decision = fc_decision,
                             !.reasoning = <<"Both forward and backward chaining agree">>]
            ELSE [res EXCEPT !.final_decision = Disagree(fc_decision, bc_decision),
                             !.reasoning = <<"Forward chaining", fc_decision,
                                             "Backward chaining", bc_decision>>]

(***************************************************************************)
(* The facts evaluated: one value of every attribute on each side of every *)
(* threshold of the built-in rules, and the applicants of the tests.       *)
(***************************************************************************)
Incomes == {20000, 30000, 40000, 50000, 60000, 70000}
CreditScores == {580, 650, 680, 700, 750, 760}
EmploymentStatuses == {"Employed", "Unemployed"}
EmploymentDurations == {0, 1}
Ages == {20, 21}
Dependents == {3, 4}
Debts == {"None", "Low", "High"}

GridFacts ==
    { Applicant("A0", i, c, s, d, a, n, e) :
        i \in Incomes, c \in CreditScores, s \in EmploymentStatuses,
        d \in EmploymentDurations, a \in Ages, n \in Dependents, e \in Debts }

TestFacts ==
    { Applicant("A1", 70000, 760, "Employed", 5, 30, 2, "Low"),
      Applicant("A2", 50000, 720, "Employed", 2, 25, 1, "None"),
      Applicant("A4", 20000, 580, "Employed", 3, 22, 2, "High"),
      Applicant("A5", 55000, 680, "Unemployed", 0, 28, 2, "Low"),
      Applicant("TEST_AGE", 100000, 800, "Employed", 5, 20, 0, "None"),
      Applicant("EDGE2", 50000, 300, "Employed", 1, 30, 0, "None") }

Facts == GridFacts \cup TestFacts

(***************************************************************************)
(* The engine: one RuleEngine instance evaluating one applicant.           *)
(***************************************************************************)
VARIABLES
    chaining_type,  \* RuleEngine.chaining_type
    strategy,       \* RuleEngine.conflict_resolver.strategy
    rule_base,      \* RuleEngine.rule_base.rules
    fc_logger,      \* RuleEngine.forward_chain.trace_logger
    bc,             \* RuleEngine.backward_chain: proven_goals, failed_goals, trace_logger
    applicant,      \* the applicant evaluate_applicant was called with
    results,        \* the results dict of evaluate_applicant
    fc_run,         \* what the last forward run did: rules fired, passes, arbitration
    pc              \* where evaluate_applicant stands

engine_vars == <<chaining_type, strategy, rule_base, fc_logger, bc, applicant, results, fc_run, pc>>

NoApplicant == Applicant(PyNone, 0, 0, PyNone, 0, 0, 0, PyNone)

\* BackwardChaining.__init__
NewBackwardChaining ==
    [proven_goals |-> {}, failed_goals |-> {}, tl |-> TraceLogger(MAX_TRACE_DEPTH)]

NoRun == [rules_fired |-> <<>>, iteration |-> 0, arbitrated |-> FALSE]

\* RuleEngine.__init__(chaining_type)
EngineInit(ct) ==
    /\ chaining_type = ct
    /\ strategy = CONFLICT_RESOLUTION_STRATEGY
    /\ rule_base = _initialize_rules
    /\ fc_logger = TraceLogger(MAX_TRACE_DEPTH)
    /\ bc = NewBackwardChaining
    /\ applicant = NoApplicant
    /\ results = InitResults(NoApplicant)
    /\ fc_run = NoRun
    /\ pc = "idle"

(***************************************************************************)
(* The conflict resolver called on its own, as the unit tests call it:     *)
(* cr holds the resolver's strategy, the last call and what it returned.   *)
(***************************************************************************)
VARIABLE cr

MaxCandidates == 3
MaxGroups == 2
MaxGroupLen == 2

CandidateIds == {"R1", "R2", "R3", "R10"}
CandidatePriorities == {"High", "Low", "Critical"}
CandidateSpecificities == {2, 3}

\* The keys of a list or dict are distinct.
Distinct(keys) == \A i, j \in 1..Len(keys) : i /= j => keys[i] /= keys[j]

\* A candidate list resolve is called with: the rules of the identifiers ids,
\* priorities ps and specificities sps.
CandidateList(ids, ps, sps) ==
    [i \in 1..Len(ids) |-> Rule(ids[i], <<>>, "Manual Review", ps[i], sps[i])]

\* The k-th rule of a group of a decision -> rules dict: High priority and
\* specificity 1, or Low priority and specificity 3.
GroupRule(decision, k, kind) ==
    Rule(<<"R1", "R2", "R3">>[k], <<>>, decision,
         IF kind = 1 THEN "High" ELSE "Low",
         IF kind = 1 THEN 1 ELSE 3)

GroupShapes == UNION { [1..n -> {1, 2}] : n \in 0..MaxGroupLen }

DecisionSet == { DECISIONS[i] : i \in 1..Len(DECISIONS) }

\* A dict resolve_by_decision is called with: the decisions keys, each with
\* the list of rules of its shape, which conclude it (the list may be empty).
DecisionDict(keys, shapes) ==
    [i \in 1..Len(keys) |->
        <<keys[i], [k \in 1..Len(shapes[i]) |-> GroupRule(keys[i], k, shapes[i][k])]>>]

\* ConflictResolver(strategy)
ResolverInit(st) ==
    cr = [strategy |-> st, requested |-> PyNone, op |-> "init", fired_rules |-> <<>>,
          rules_by_decision |-> <<>>, winner |-> PyNone, decision |-> PyNone,
          tl |-> TraceLogger(MAX_TRACE_DEPTH)]

(***************************************************************************)
(* The trace logger called on its own: tlog holds the logger, the entries  *)
(* passed to log() since the trace was last emptied, the last call and     *)
(* what it returned.                                                       *)
(***************************************************************************)
VARIABLE tlog

MaxCapacity == 2
MaxLogCalls == 4

\* The levels the engine passes to log() itself.
Levels == {"SYSTEM", "CONFLICT"}

\* TraceLogger(max_depth)
LoggerInit(n) ==
    tlog = [tl |-> TraceLogger(n), logged |-> <<>>, op |-> "init", ret |-> None]

(***************************************************************************)
(* A rule called on its own: rcall holds the rule, the applicant evaluate  *)
(* was called with, what it returned and how many conditions it tested.    *)
(***************************************************************************)
VARIABLE rcall

MaxAntecedents == 2

\* The conditions a rule is built from: every comparator, in_range, a
\* comparator _evaluate_condition does not know, an attribute the
\* applicant does not have, and == and != on a field that may hold a str
\* where the operand is an int.
RuleConditions ==
    { Cond("income", ">", 60000), Cond("income", ">=", 60000),
      Cond("age", "<", 21), Cond("dependents", "<=", 3),
      Cond("existing_debt", "==", "None"), Cond("employment_status", "!=", "Unemployed"),
      Cond("credit_score", "in_range", <<600, 700>>),
      Cond("credit_score", "between", <<600, 700>>),
      Cond("credit_score", "==", 700), Cond("credit_score", "!=", 700),
      Cond("bonus", ">", 0), Cond("bonus", "!=", 0) }

\* The applicants a rule is evaluated on: credit scores on both sides of
\* both ends of the range, and both sides of the other thresholds.
RuleFacts ==
    { Applicant("A0", i, c, s, 1, a, 3, e) :
        i \in {60000, 70000}, c \in {599, 600, 700, 701},
        s \in {"Employed", "Unemployed"}, a \in {20, 21}, e \in {"None", "High"} }

\* Applicants whose credit score is a str.
MalformedFacts ==
    { Applicant("A0", i, "n/a", s, 1, a, 3, e) :
        i \in {60000, 70000},
        s \in {"Employed", "Unemployed"}, a \in {20, 21}, e \in {"None", "High"} }

\* Rule(rule_id, antecedents, consequent, priority, specificity)
RuleInit(antecedents) ==
    rcall = [rule |-> Rule("R1", antecedents, "Approve Loan", "High", Len(antecedents)),
             op |-> "init", applicant |-> NoApplicant, ret |-> FALSE, examined |-> 0]

(***************************************************************************)
(* One engine used for several evaluations in sequence.  The trace lists  *)
(* of a logger are objects: lists holds every list the logger has bound to *)
(* self.trace, cur is the one it is bound to now, and a returned summary   *)
(* refers to its list by its index.                                        *)
(***************************************************************************)
VARIABLE session

MaxRuns == 2

\* The applicants of a session: forward and backward chaining disagree on A5,
\* agree on A1, and no rule fires for EDGE2.
SessionFacts ==
    { Applicant("A1", 70000, 760, "Employed", 5, 30, 2, "Low"),
      Applicant("A5", 55000, 680, "Unemployed", 0, 28, 2, "Low"),
      Applicant("EDGE2", 50000, 300, "Employed", 1, 30, 0, "None") }

\* TraceLogger.__init__: self.trace = [], the logger's first list.
NewLists == [lists |-> << <<>> >>, cur |-> 1]

\* start() emptying the list self.trace is bound to, in place.
StartList_in_place(h) == [h EXCEPT !.lists[h.cur] = <<>>]

\* start(): self.trace = [] binds a new list; the list bound before is left
\* as it is.
StartList(h) == [lists |-> Append(h.lists, <<>>), cur |-> Len(h.lists) + 1]

\* The entries logged since start() are in the list self.trace is bound to.
Logged(h, trace) == [h EXCEPT !.lists[h.cur] = trace]

\* RuleEngine(chaining_type) as a value: the fields evaluate_applicant reads
\* and writes.
NewEngine(ct) ==
    [chaining_type |-> ct, fc_logger |-> TraceLogger(MAX_TRACE_DEPTH), fc_lists |-> NewLists,
     bc |-> NewBackwardChaining, bc_lists |-> NewLists]

\* The part (decision, trace) of the results dict of one chainer: the summary
\* with the reference to the logger's list in place of the list.
ChainResult(decision, summary, ref) ==
    <<[decision |-> decision, total_entries |-> summary.total_entries,
       rules_fired |-> summary.rules_fired,
       conflicts_resolved |-> summary.conflicts_resolved, trace |-> ref]>>

\* evaluate_applicant after the forward chaining block, r being what infer
\* returned and h the logger's lists after start().
EaForwardDone(e, res, r, h) ==
    [e |-> [e EXCEPT !.fc_logger = r.tl, !.fc_lists = Logged(h, r.tl.trace)],
     applicant |-> r.applicant,
     results |-> [res EXCEPT !.forward_chaining = ChainResult(r.decision, r.trace, h.cur)]]

\* evaluate_applicant up to the end of the forward chaining block.
EaForward(e, a) ==
    IF e.chaining_type \in {"forward", "both"}
    THEN EaForwardDone(e, InitResults(a),
                       ForwardInfer(_initialize_rules, CONFLICT_RESOLUTION_STRATEGY,
                                    e.fc_logger, a),
                       StartList(e.fc_lists))
    ELSE [e |-> e, applicant |-> a, results |-> InitResults(a)]

\* evaluate_applicant after the backward chaining block, r being what infer
\* returned and h the logger's lists after start().
EaBackwardDone(f, r, h) ==
    [e |-> [f.e EXCEPT !.bc = r.bc, !.bc_lists = Logged(h, r.bc.tl.trace)],
     applicant |-> r.applicant,
     results |-> [f.results EXCEPT
                     !.backward_chaining = ChainResult(r.decision, r.trace, h.cur)]]

\* evaluate_applicant from the backward chaining block to its end, f being
\* what the forward chaining block left.
EaBackward(f) ==
    IF f.e.chaining_type \in {"backward", "both"}
    THEN EaBackwardDone(f, BackwardInfer(_initialize_rules, CONFLICT_RESOLUTION_STRATEGY,
                                         f.e.bc, f.applicant),
                        StartList(f.e.bc_lists))
    ELSE f

\* evaluate_applicant from "Determine final decision" to the return, b being
\* what the two blocks left: the engine after the call and the results dict.
EaDetermine(b) == [e |-> b.e, results |-> Determine(b.e.chaining_type, b.results)]

\* RuleEngine.evaluate_applicant on the engine e.
evaluate_applicant(e, a) == EaDetermine(EaBackward(EaForward(e, a)))

RECURSIVE EvaluateBatchFrom(_, _, _, _)
\* results.insert(0, result) in place of results.append(result).
EvaluateBatchNext_insert_first(applicants, i, batch_results, r) ==
    EvaluateBatchFrom(r.e, applicants, i + 1, <<r.results>> \o batch_results)

\* The body of the for loop of evaluate_batch after evaluate_applicant
\* returned r: results.append(result).
EvaluateBatchNext(applicants, i, batch_results, r) ==
    EvaluateBatchFrom(r.e, applicants, i + 1, Append(batch_results, r.results))

\* The for loop of evaluate_batch from applicant i on.
EvaluateBatchFrom(e, applicants, i, batch_results) ==
    IF i > Len(applicants) THEN [e |-> e, results |-> batch_results]
    ELSE EvaluateBatchNext(applicants, i, batch_results, evaluate_applicant(e, applicants[i]))

\* RuleEngine.evaluate_batch on the engine e: the engine after the call and
\* the list returned.
evaluate_batch(e, applicants) == EvaluateBatchFrom(e, applicants, 1, <<>>)

\* What a caller keeps of a results dict to compare evaluations: the
\* applicant, the decisions and the entry counts of the two summaries.
Outcome(res) ==
    [applicant_data |-> res.applicant_data, final_decision |-> res.final_decision,
     forward_chaining |-> [i \in 1..Len(res.forward_chaining) |->
                              [res.forward_chaining[i] EXCEPT !.trace = 0]],
     backward_chaining |-> [i \in 1..Len(res.backward_chaining) |->
                               [res.backward_chaining[i] EXCEPT !.trace = 0]]]

Outcomes(batch_results) == [i \in 1..Len(batch_results) |-> Outcome(batch_results[i])]

\* The session of the engine of chaining type ct: no call yet; previous is
\* what the caller kept of the engine used before.
SessionInit(ct, previous) ==
    session = [engine |-> NewEngine(ct), op |-> "init", batch |-> <<>>, ret |-> <<>>,
               history |-> <<>>, previous |-> previous]

NoPrevious == [chaining_type |-> PyNone, outcomes |-> <<>>]

(***************************************************************************)
(* Two calls of ForwardChaining.infer on one engine at the same time, as   *)
(* two requests of the web application make them: the calls share the      *)
(* chainer's logger, and a step of a call is one call of the logger.       *)
(***************************************************************************)
VARIABLE shared

Threads == {1, 2}

\* The applicants of the two calls.
ConcurrentFacts ==
    { Applicant("A1", 70000, 760, "Employed", 5, 30, 2, "Low"),
      Applicant("A5", 55000, 680, "Unemployed", 0, 28, 2, "Low") }

\* The rule base of the engine the calls share: R1 and R4 are left after
\* remove_rule of the other rules.
ConcurrentRules == SelectSeq(_initialize_rules, LAMBDA rule : rule.rule_id \in {"R1", "R4"})

\* The calls of the logger infer makes for an applicant, in order, each as
\* the entry it passes: infer reads nothing of the logger, so they are the
\* entries of a run that has the logger to itself.
LoggerCalls(a) ==
    ForwardInfer(ConcurrentRules, CONFLICT_RESOLUTION_STRATEGY,
                 TraceLogger(MAX_TRACE_DEPTH), a).tl.trace

NoCall == [pc |-> "idle", applicant |-> NoApplicant, calls |-> <<>>, next |-> 0, own |-> 0, ret |-> 0]

\* The engine's forward chainer with its logger, and no call of infer yet.
SharedInit ==
    shared = [tl |-> TraceLogger(MAX_TRACE_DEPTH), lists |-> NewLists,
              thread |-> [t \in Threads |-> NoCall]]

(***************************************************************************)
(* A rule base called on its own: its rules, and the last call made of it  *)
(* with its argument, its result and the rules before it.                  *)
(***************************************************************************)
VARIABLE rb

\* RuleBase()
RuleBaseInit ==
    rb = [rules |-> _initialize_rules, op |-> "init", arg |-> PyNone, ret |-> None,
          before |-> _initialize_rules]

(***************************************************************************)
(* Two threads calling infer of the engine's one backward chainer.  The    *)
(* sets proven_goals and failed_goals are fields of the chainer, shared by *)
(* the calls; a thread holds its applicant, the index of the goal its for  *)
(* loop is at, what _prove_goal did for each goal so far, and the decision *)
(* it returns.  interfered records that the other thread wrote one of the  *)
(* sets between this call's first reset and the end of its loop.  The      *)
(* chainer's logger is left out here.                                      *)
(***************************************************************************)
VARIABLE bshared

\* The applicants of the concurrent calls: A1 (Approve Loan by R1), A5
\* (Reject Loan by R4) and one no rule is satisfied for.
BackwardFacts ==
    { Applicant("A1", 70000, 760, "Employed", 5, 30, 2, "Low"),
      Applicant("A5", 55000, 680, "Unemployed", 0, 28, 2, "Low"),
      Applicant("EDGE2", 50000, 300, "Employed", 1, 30, 0, "None") }

NoInfer ==
    [pc |-> "idle", applicant |-> NoApplicant, goal |-> 1, answers |-> <<>>, ret |-> PyNone,
     interfered |-> FALSE]

\* BackwardChaining.__init__: both sets empty, no call of infer yet.
BackwardSharedInit ==
    bshared = [proven_goals |-> {}, failed_goals |-> {}, thread |-> [t \in Threads |-> NoInfer]]

\* self.proven_goals = set(), the first of the two resets of infer.
reset_proven_goals(b) == [b EXCEPT !.proven_goals = {}]

\* infer without the reset of failed_goals.
reset_failed_goals_skipped(b) == b

\* self.failed_goals = set(), the second of the two resets of infer.
reset_failed_goals(b) == [b EXCEPT !.failed_goals = {}]

\* The rules of the goal the applicant satisfies, as _prove_goal collects them.
SatisfiedRules(rules, goal, a) ==
    BcCheckRules(get_rules_by_consequent(rules, goal), a, goal, 0, 1, <<>>,
                 TraceLogger(MAX_TRACE_DEPTH)).satisfied_rules

\* The thread after _prove_goal returned True for its goal: the goal is the
\* decision and the loop is left.
GoalProven(th, answer) ==
    [th EXCEPT !.answers = Append(@, answer), !.ret = goals[th.goal], !.pc = "return"]

\* The thread after _prove_goal returned False for its goal: the next goal,
\* or Manual Review when the goals are exhausted.
GoalFailed(th, answer) ==
    IF th.goal = Len(goals)
    THEN [th EXCEPT !.answers = Append(@, answer), !.ret = "Manual Review", !.pc = "return"]
    ELSE [th EXCEPT !.answers = Append(@, answer), !.goal = @ + 1, !.pc = "check"]

\* The other thread when this one writes a memo set.
Interfere(th) ==
    IF th.pc \in {"reset", "check", "prove"} THEN [th EXCEPT !.interfered = TRUE] ELSE th

more_vars == <<rb, bshared>>

MoreInit == RuleBaseInit /\ BackwardSharedInit

ext_vars == <<rcall, session, shared, more_vars>>

ExtInit ==
    /\ RuleInit(<<>>)
    /\ SessionInit("both", NoPrevious)
    /\ SharedInit
    /\ MoreInit

vars == <<engine_vars, cr, tlog, ext_vars>>

(***************************************************************************)
(* Actions of the engine.                                                  *)
(***************************************************************************)
\* evaluate_applicant is called: the results dict is set up.
EvaluateApplicantOf(a) ==
    /\ pc = "idle"
    /\ applicant' = a
    /\ results' = InitResults(a)
    /\ pc' = "forward"
    /\ UNCHANGED <<chaining_type, strategy, rule_base, fc_logger, bc, fc_run, cr, tlog, ext_vars>>

\* evaluate_applicant(applicant), for the applicants of the grid and the tests.
EvaluateApplicant == \E a \in Facts : EvaluateApplicantOf(a)

\* evaluate_applicant, the forward chaining block.
RunForward ==
    /\ pc = "forward"
    /\ IF chaining_type \in {"forward", "both"}
       THEN \E r \in {ForwardInfer(rule_base, strategy, fc_logger, applicant)} :
            /\ fc_logger' = r.tl
            /\ applicant' = r.applicant
            /\ results' = [results EXCEPT !.forward_chaining =
                              <<[decision |-> r.decision, trace |-> r.trace]>>]
            /\ fc_run' = [rules_fired |-> r.rules_fired, iteration |-> r.iteration,
                          arbitrated |-> r.arbitrated]
       ELSE UNCHANGED <<fc_logger, applicant, results, fc_run>>
    /\ pc' = "backward"
    /\ UNCHANGED <<chaining_type, strategy, rule_base, bc, cr, tlog, ext_vars>>

\* evaluate_applicant, the backward chaining block.
RunBackward ==
    /\ pc = "backward"
    /\ IF chaining_type \in {"backward", "both"}
       THEN \E r \in {BackwardInfer(rule_base, strategy, bc, applicant)} :
            /\ bc' = r.bc
            /\ applicant' = r.applicant
            /\ results' = [results EXCEPT !.backward_chaining =
                              <<[decision |-> r.decision, trace |-> r.trace]>>]
       ELSE UNCHANGED <<bc, applicant, results>>
    /\ pc' = "merge"
    /\ UNCHANGED <<chaining_type, strategy, rule_base, fc_logger, fc_run, cr, tlog, ext_vars>>

\* evaluate_applicant, from "Determine final decision" to the return.
Merge ==
    /\ pc = "merge"
    /\ IF DetermineRaises(chaining_type, results)
       THEN /\ pc' = "raised"
            /\ UNCHANGED <<applicant, results>>
       ELSE /\ results' = Determine(chaining_type, results)
            /\ applicant' = set_decision(applicant, results'.final_decision, None)
            /\ pc' = "done"
    /\ UNCHANGED <<chaining_type, strategy, rule_base, fc_logger, bc, fc_run, cr, tlog, ext_vars>>

\* change_conflict_strategy(strategy)
ChangeConflictStrategy ==
    /\ pc = "idle"
    /\ \E st \in Strategies : strategy' = change_conflict_strategy(strategy, st)
    /\ UNCHANGED <<chaining_type, rule_base, fc_logger, bc, applicant, results, fc_run, pc,
                   cr, tlog, ext_vars>>

\* RuleEngine(chaining_type): the caller builds the engine for the next
\* evaluation.
Construct ==
    /\ pc \in {"done", "raised"}
    /\ \E ct \in ChainingTypes : chaining_type' = ct
    /\ strategy' = CONFLICT_RESOLUTION_STRATEGY
    /\ rule_base' = _initialize_rules
    /\ fc_logger' = TraceLogger(MAX_TRACE_DEPTH)
    /\ bc' = NewBackwardChaining
    /\ applicant' = NoApplicant
    /\ results' = InitResults(NoApplicant)
    /\ fc_run' = NoRun
    /\ pc' = "idle"
    /\ UNCHANGED <<cr, tlog, ext_vars>>

Init ==
    /\ \E ct \in ChainingTypes : EngineInit(ct)
    /\ ResolverInit(CONFLICT_RESOLUTION_STRATEGY)
    /\ LoggerInit(MAX_TRACE_DEPTH)
    /\ ExtInit

Next ==
    \/ EvaluateApplicant
    \/ RunForward
    \/ RunBackward
    \/ Merge
    \/ ChangeConflictStrategy
    \/ Construct

Spec == Init /\ [][Next]_vars

(***************************************************************************)
(* Actions of the conflict resolver called on its own.                     *)
(***************************************************************************)
\* resolver.resolve(fired_rules, trace_logger)
CrResolve ==
    /\ cr.op \in {"init", "change_conflict_strategy"}
    /\ \E n \in 0..MaxCandidates :
       \E ids \in [1..n -> CandidateIds] :
       \E ps \in [1..n -> CandidatePriorities] :
       \E sps \in [1..n -> CandidateSpecificities] :
        /\ Distinct(ids)
        /\ \E r \in {resolve(cr.strategy, CandidateList(ids, ps, sps), cr.tl)} :
            cr' = [cr EXCEPT !.op = "resolve", !.requested = PyNone, !.fired_rules = CandidateList(ids, ps, sps),
                             !.winner = r.winner, !.tl = r.tl]
    /\ UNCHANGED <<engine_vars, tlog, ext_vars>>

\* resolver.resolve_by_decision(rules_by_decision, trace_logger)
CrResolveByDecision ==
    /\ cr.op = "init"
    /\ \E n \in 1..MaxGroups :
       \E keys \in [1..n -> DecisionSet] :
       \E shapes \in [1..n -> GroupShapes] :
        /\ Distinct(keys)
        /\ \E r \in {resolve_by_decision(cr.strategy, DecisionDict(keys, shapes), cr.tl)} :
            cr' = [cr EXCEPT !.op = "resolve_by_decision",
                             !.rules_by_decision = DecisionDict(keys, shapes),
                             !.decision = r.decision, !.tl = r.tl]
    /\ UNCHANGED <<engine_vars, tlog, ext_vars>>

\* ConflictResolver(): after a call the caller builds a resolver of the
\* default strategy for the next call.
CrConstruct ==
    /\ cr.op /= "init"
    /\ cr' = [strategy |-> CONFLICT_RESOLUTION_STRATEGY, requested |-> PyNone, op |-> "init",
              fired_rules |-> <<>>, rules_by_decision |-> <<>>, winner |-> PyNone,
              decision |-> PyNone, tl |-> TraceLogger(MAX_TRACE_DEPTH)]
    /\ UNCHANGED <<engine_vars, tlog, ext_vars>>

\* engine.change_conflict_strategy(strategy) on the engine that owns the
\* resolver, before the resolver is called.
CrChangeConflictStrategy ==
    /\ cr.op = "init"
    /\ \E st \in StrategyStrings :
        cr' = [cr EXCEPT !.op = "change_conflict_strategy", !.requested = st,
                         !.strategy = change_conflict_strategy(cr.strategy, st)]
    /\ UNCHANGED <<engine_vars, tlog, ext_vars>>

\* ConflictResolver(strategy), for each strategy name the engine accepts.
InitResolver ==
    /\ EngineInit("both")
    /\ \E st \in Strategies : ResolverInit(st)
    /\ LoggerInit(MAX_TRACE_DEPTH)
    /\ ExtInit

NextResolver ==
    \/ CrResolve
    \/ CrResolveByDecision
    \/ CrConstruct
    \/ CrChangeConflictStrategy

SpecResolver == InitResolver /\ [][NextResolver]_vars

(***************************************************************************)
(* Actions of the trace logger called on its own.  A call that reaches     *)
(* log() is recorded in tlog.logged with the entry it passed.              *)
(***************************************************************************)
Called(op, tl, entries) ==
    tlog' = [tl |-> tl, logged |-> tlog.logged \o entries, op |-> op, ret |-> None]

\* start(chaining_type, applicant_id)
TlStart ==
    /\ tlog' = [tl |-> start(tlog.tl, "Forward Chaining", "A1"),
                logged |-> <<Entry("SYSTEM", <<"Starting", "Forward Chaining", "A1">>, PyNone)>>,
                op |-> "start", ret |-> None]
    /\ UNCHANGED <<engine_vars, cr, ext_vars>>

\* log(level, message)
TlLog ==
    /\ Len(tlog.logged) < MaxLogCalls
    /\ \E level \in Levels :
        Called("log", log(tlog.tl, level, <<"message">>, PyNone),
               <<Entry(level, <<"message">>, PyNone)>>)
    /\ UNCHANGED <<engine_vars, cr, ext_vars>>

\* log_rule_evaluation(rule_id, matched, description)
TlLogRuleEvaluation ==
    /\ Len(tlog.logged) < MaxLogCalls
    /\ \E matched \in BOOLEAN :
        Called("log_rule_evaluation", log_rule_evaluation(tlog.tl, "R1", matched),
               <<Entry("RULE_EVAL",
                       <<"R1", IF matched THEN "MATCHED" ELSE "NOT MATCHED">>, "R1")>>)
    /\ UNCHANGED <<engine_vars, cr, ext_vars>>

\* log_rule_fired(rule_id, consequent)
TlLogRuleFired ==
    /\ Len(tlog.logged) < MaxLogCalls
    /\ Called("log_rule_fired", log_rule_fired(tlog.tl, "R1", "Approve Loan"),
              <<Entry("RULE_FIRE", <<"R1", "fired", "Approve Loan">>, "R1")>>)
    /\ UNCHANGED <<engine_vars, cr, ext_vars>>

\* log_decision(decision): before any start() it raises and logs nothing.
TlLogDecision ==
    /\ Len(tlog.logged) < MaxLogCalls
    /\ Called("log_decision", log_decision(tlog.tl, "Manual Review"),
              IF tlog.tl.start_time = PyNone THEN <<>>
              ELSE <<Entry("DECISION", <<"Final Decision", "Manual Review">>, PyNone)>>)
    /\ UNCHANGED <<engine_vars, cr, ext_vars>>

\* get_summary()
TlGetSummary ==
    /\ tlog' = [tlog EXCEPT !.op = "get_summary", !.ret = <<get_summary(tlog.tl)>>]
    /\ UNCHANGED <<engine_vars, cr, ext_vars>>

\* clear()
TlClear ==
    /\ tlog' = [tl |-> clear(tlog.tl), logged |-> <<>>, op |-> "clear", ret |-> None]
    /\ UNCHANGED <<engine_vars, cr, ext_vars>>

InitLogger ==
    /\ EngineInit("both")
    /\ ResolverInit(CONFLICT_RESOLUTION_STRATEGY)
    /\ \E n \in 0..MaxCapacity : LoggerInit(n)
    /\ ExtInit

NextLogger ==
    \/ TlStart
    \/ TlLog
    \/ TlLogRuleEvaluation
    \/ TlLogRuleFired
    \/ TlLogDecision
    \/ TlGetSummary
    \/ TlClear

SpecLogger == InitLogger /\ [][NextLogger]_vars

(***************************************************************************)
(* Actions of a rule called on its own.                                    *)
(***************************************************************************)
\* rule.evaluate(applicant)
RcEvaluate ==
    /\ rcall.op = "init"
    /\ \E malformed \in BOOLEAN : \E a \in (IF malformed THEN MalformedFacts ELSE RuleFacts) :
        rcall' = [rcall EXCEPT !.op = "evaluate", !.applicant = a,
                               !.ret = evaluate(rcall.rule, a),
                               !.examined = ExaminedFrom(rcall.rule, a, 1)]
    /\ UNCHANGED <<engine_vars, cr, tlog, session, shared, more_vars>>

\* Rule(rule_id, [], ...): after a call the caller builds a rule of no
\* antecedents for the next call.
RcConstruct ==
    /\ rcall.op = "evaluate"
    /\ rcall' = [rule |-> Rule("R1", <<>>, "Approve Loan", "High", 0),
                 op |-> "init", applicant |-> NoApplicant, ret |-> FALSE, examined |-> 0]
    /\ UNCHANGED <<engine_vars, cr, tlog, session, shared, more_vars>>

\* Rule(rule_id, antecedents, ...), for every list of conditions.
InitRule ==
    /\ EngineInit("both")
    /\ ResolverInit(CONFLICT_RESOLUTION_STRATEGY)
    /\ LoggerInit(MAX_TRACE_DEPTH)
    /\ \E n \in 0..MaxAntecedents : \E antecedents \in [1..n -> RuleConditions] :
          RuleInit(antecedents)
    /\ SessionInit("both", NoPrevious)
    /\ SharedInit
    /\ MoreInit

NextRule ==
    \/ RcEvaluate
    \/ RcConstruct

SpecRule == InitRule /\ [][NextRule]_vars

(***************************************************************************)
(* The engine with its rule base edited between evaluations.               *)
(***************************************************************************)
MaxAdded == 1

\* The rules add_rule is called with: a rule of no antecedents whose
\* consequent is none of the four decisions, and a second rule of the
\* identifier R1.
ExtraRules ==
    { Rule("X1", <<>>, "Escalate", "High", 1),
      Rule("R1", <<Cond("credit_score", ">", 750)>>, "Approve Loan", "High", 1) }

\* The identifiers remove_rule is called with.
RemovableIds == {"R1", "R2", "R3", "R4", "R5", "R6", "R7", "R8", "X1"}

\* The applicants evaluated on an edited rule base: A1, A2 and A5 of the
\* tests and one no built-in rule fires for.
RuleBaseFacts ==
    { Applicant("A1", 70000, 760, "Employed", 5, 30, 2, "Low"),
      Applicant("A5", 55000, 680, "Unemployed", 0, 28, 2, "Low"),
      Applicant("EDGE2", 50000, 300, "Employed", 1, 30, 0, "None") }

\* How many rules of the rule base were added by add_rule.
AddedCount(rules) == Cardinality({ i \in 1..Len(rules) : rules[i] \in ExtraRules })

\* engine.add_rule(rule)
AddRule ==
    /\ pc = "idle"
    /\ AddedCount(rule_base) < MaxAdded
    /\ \E rule \in ExtraRules : rule_base' = add_rule(rule_base, rule)
    /\ UNCHANGED <<chaining_type, strategy, fc_logger, bc, applicant, results, fc_run, pc,
                   cr, tlog, ext_vars>>

\* engine.remove_rule(rule_id)
RemoveRule ==
    /\ pc = "idle"
    /\ \E rule_id \in RemovableIds : rule_base' = remove_rule(rule_base, rule_id)
    /\ UNCHANGED <<chaining_type, strategy, fc_logger, bc, applicant, results, fc_run, pc,
                   cr, tlog, ext_vars>>

\* evaluate_applicant(applicant) on the edited rule base.
RbEvaluateApplicant == \E a \in RuleBaseFacts : EvaluateApplicantOf(a)

NextRuleBase ==
    \/ AddRule
    \/ RemoveRule
    \/ ChangeConflictStrategy
    \/ RbEvaluateApplicant
    \/ RunForward
    \/ RunBackward
    \/ Merge
    \/ Construct

SpecRuleBase == Init /\ [][NextRuleBase]_vars

(***************************************************************************)
(* The engine with its rule base enlarged by add_rule, rule after rule.    *)
(***************************************************************************)
MaxEnlarged == 12

\* A rule no applicant satisfies, concluding Manual Review.
FillerRule == Rule("X1", <<Cond("age", "<", 0)>>, "Manual Review", "Low", 1)

\* engine.add_rule(Rule('X1', [('age', '<', 0)], 'Manual Review', 'Low', 1))
EnAddRule ==
    /\ pc = "idle"
    /\ Len(rule_base) < Len(_initialize_rules) + MaxEnlarged
    /\ rule_base' = add_rule(rule_base, FillerRule)
    /\ UNCHANGED <<chaining_type, strategy, fc_logger, bc, applicant, results, fc_run, pc,
                   cr, tlog, ext_vars>>

NextEnlarged ==
    \/ EnAddRule
    \/ RbEvaluateApplicant
    \/ RunForward
    \/ RunBackward
    \/ Merge
    \/ Construct

SpecEnlarged == Init /\ [][NextEnlarged]_vars

(***************************************************************************)
(* The engine with callers that fire rules of its rule base and reset the  *)
(* fired counts between evaluations.                                       *)
(***************************************************************************)
MaxFired == 2

\* The identifiers of the rules fire() is called on.
FiredIds == {"R1", "R8"}

\* rule_base.get_rule_by_id(rule_id).fire()
Fire ==
    /\ pc = "idle"
    /\ \E i \in 1..Len(rule_base) :
          /\ rule_base[i].rule_id \in FiredIds
          /\ rule_base[i].fired_count < MaxFired
          /\ rule_base' = [rule_base EXCEPT ![i] = fire(@)]
    /\ UNCHANGED <<chaining_type, strategy, fc_logger, bc, applicant, results, fc_run, pc,
                   cr, tlog, ext_vars>>

\* rule_base.reset_fired_counts()
ResetFiredCounts ==
    /\ pc = "idle"
    /\ rule_base' = reset_fired_counts(rule_base)
    /\ UNCHANGED <<chaining_type, strategy, fc_logger, bc, applicant, results, fc_run, pc,
                   cr, tlog, ext_vars>>

NextFired ==
    \/ Fire
    \/ ResetFiredCounts
    \/ RbEvaluateApplicant
    \/ RunForward
    \/ RunBackward
    \/ Merge
    \/ Construct

SpecFired == Init /\ [][NextFired]_vars

(***************************************************************************)
(* Actions of two concurrent calls of infer on the shared backward chainer.*)
(***************************************************************************)
\* backward_chain.infer(applicant) is called in thread t.
BkCall(t) ==
    /\ bshared.thread[t].pc \in {"idle", "returned"}
    /\ \E a \in BackwardFacts :
        bshared' = [bshared EXCEPT !.thread[t] = [NoInfer EXCEPT !.pc = "start", !.applicant = a]]
    /\ UNCHANGED <<engine_vars, cr, tlog, rcall, session, shared, rb>>

\* self.proven_goals = set()
BkResetProven(t) ==
    /\ bshared.thread[t].pc = "start"
    /\ \E b \in {reset_proven_goals(bshared)} :
        bshared' = [b EXCEPT !.thread = [u \in Threads |->
                                      IF u = t THEN [@[t] EXCEPT !.pc = "reset"]
                                      ELSE Interfere(@[u])]]
    /\ UNCHANGED <<engine_vars, cr, tlog, rcall, session, shared, rb>>

\* self.failed_goals = set()
BkResetFailed(t) ==
    /\ bshared.thread[t].pc = "reset"
    /\ \E b \in {reset_failed_goals(bshared)} :
        bshared' = [b EXCEPT !.thread = [u \in Threads |->
                                      IF u = t THEN [@[t] EXCEPT !.pc = "check"]
                                      ELSE Interfere(@[u])]]
    /\ UNCHANGED <<engine_vars, cr, tlog, rcall, session, shared, rb>>

\* _prove_goal(goal, applicant) up to the depth guard: the goal is looked up
\* in proven_goals, then in failed_goals.
BkCheckMemo(t) ==
    /\ bshared.thread[t].pc = "check"
    /\ \E th \in {bshared.thread[t]} :
        bshared' = [bshared EXCEPT !.thread[t] =
                      IF goals[th.goal] \in bshared.proven_goals
                      THEN GoalProven(th, "already proven")
                      ELSE IF goals[th.goal] \in bshared.failed_goals
                      THEN GoalFailed(th, "already failed")
                      ELSE [th EXCEPT !.pc = "prove"]]
    /\ UNCHANGED <<engine_vars, cr, tlog, rcall, session, shared, rb>>

\* _prove_goal from "Find rules that conclude with this goal" on: the rules
\* of the goal are evaluated and the goal is added to proven_goals or to
\* failed_goals.
BkProve(t) ==
    /\ bshared.thread[t].pc = "prove"
    /\ \E th \in {bshared.thread[t]} :
       \E satisfied_rules \in {SatisfiedRules(rule_base, goals[th.goal], th.applicant)} :
        bshared' =
            IF Len(satisfied_rules) > 0
            THEN [bshared EXCEPT !.proven_goals = @ \cup {goals[th.goal]},
                                 !.thread = [u \in Threads |->
                                     IF u = t THEN GoalProven(th, "proven")
                                     ELSE Interfere(@[u])]]
            ELSE [bshared EXCEPT !.failed_goals = @ \cup {goals[th.goal]},
                                 !.thread = [u \in Threads |->
                                     IF u = t THEN GoalFailed(th, "failed")
                                     ELSE Interfere(@[u])]]
    /\ UNCHANGED <<engine_vars, cr, tlog, rcall, session, shared, rb>>

\* infer returns its decision in thread t.
BkReturn(t) ==
    /\ bshared.thread[t].pc = "return"
    /\ bshared' = [bshared EXCEPT !.thread[t].pc = "returned"]
    /\ UNCHANGED <<engine_vars, cr, tlog, rcall, session, shared, rb>>

InitBackward ==
    /\ EngineInit("both")
    /\ ResolverInit(CONFLICT_RESOLUTION_STRATEGY)
    /\ LoggerInit(MAX_TRACE_DEPTH)
    /\ ExtInit

NextBackward ==
    \E t \in Threads :
        \/ BkCall(t)
        \/ BkResetProven(t)
        \/ BkResetFailed(t)
        \/ BkCheckMemo(t)
        \/ BkProve(t)
        \/ BkReturn(t)

SpecBackward == InitBackward /\ [][NextBackward]_vars

(***************************************************************************)
(* Actions of a rule base called on its own.                               *)
(***************************************************************************)
\* The identifiers the rule base is asked for: those of RemovableIds and one
\* no rule ever has.
QueriedIds == RemovableIds \cup {"R9"}

\* The consequents the rule base is asked for.
QueriedConsequents ==
    {"Approve Loan", "Approve with Conditions", "Reject Loan", "Manual Review",
     "Escalate", "Defer"}

\* rule_base.add_rule(rule)
RbAddRule ==
    /\ AddedCount(rb.rules) < MaxAdded
    /\ \E rule \in ExtraRules :
        rb' = [rules |-> add_rule(rb.rules, rule), op |-> "add_rule",
               arg |-> rule.rule_id, ret |-> None, before |-> rb.rules]
    /\ UNCHANGED <<engine_vars, cr, tlog, rcall, session, shared, bshared>>

\* rule_base.remove_rule(rule_id)
RbRemoveRule ==
    /\ \E rule_id \in QueriedIds :
        rb' = [rules |-> remove_rule(rb.rules, rule_id), op |-> "remove_rule",
               arg |-> rule_id, ret |-> None, before |-> rb.rules]
    /\ UNCHANGED <<engine_vars, cr, tlog, rcall, session, shared, bshared>>

\* rule_base.get_rule_by_id(rule_id)
RbGetRuleById ==
    /\ \E rule_id \in QueriedIds :
        rb' = [rb EXCEPT !.op = "get_rule_by_id", !.arg = rule_id,
                         !.ret = get_rule_by_id(rb.rules, rule_id), !.before = rb.rules]
    /\ UNCHANGED <<engine_vars, cr, tlog, rcall, session, shared, bshared>>

\* rule_base.get_rules_by_consequent(consequent)
RbGetRulesByConsequent ==
    /\ \E consequent \in QueriedConsequents :
        rb' = [rb EXCEPT !.op = "get_rules_by_consequent", !.arg = consequent,
                         !.ret = get_rules_by_consequent(rb.rules, consequent),
                         !.before = rb.rules]
    /\ UNCHANGED <<engine_vars, cr, tlog, rcall, session, shared, bshared>>

InitQuery ==
    /\ EngineInit("both")
    /\ ResolverInit(CONFLICT_RESOLUTION_STRATEGY)
    /\ LoggerInit(MAX_TRACE_DEPTH)
    /\ ExtInit

NextQuery ==
    \/ RbAddRule
    \/ RbRemoveRule
    \/ RbGetRuleById
    \/ RbGetRulesByConsequent

SpecQuery == InitQuery /\ [][NextQuery]_vars

(***************************************************************************)
(* Actions of a session: calls of one engine, one after the other.  The    *)
(* history holds the results dict of every evaluation of the engine, in    *)
(* the order they were returned.                                           *)
(***************************************************************************)
\* engine.evaluate_applicant(applicant)
SsEvaluateApplicant ==
    /\ Len(session.history) < MaxRuns
    /\ \E a \in SessionFacts :
       \E r \in {evaluate_applicant(session.engine, a)} :
        session' = [session EXCEPT !.engine = r.e, !.op = "evaluate_applicant",
                                   !.batch = <<a>>, !.ret = <<r.results>>,
                                   !.history = Append(@, r.results)]
    /\ UNCHANGED <<engine_vars, cr, tlog, rcall, shared, more_vars>>

\* engine.evaluate_batch(applicants)
SsEvaluateBatch ==
    /\ \E n \in 0..(MaxRuns - Len(session.history)) :
       \E applicants \in [1..n -> SessionFacts] :
       \E r \in {evaluate_batch(session.engine, applicants)} :
        session' = [session EXCEPT !.engine = r.e, !.op = "evaluate_batch",
                                   !.batch = applicants, !.ret = r.results,
                                   !.history = @ \o r.results]
    /\ UNCHANGED <<engine_vars, cr, tlog, rcall, shared, more_vars>>

\* RuleEngine(chaining_type): the caller goes on with a fresh engine and
\* keeps the outcomes of the engine used so far.
SsConstruct ==
    /\ session.op /= "init"
    /\ \E ct \in ChainingTypes :
        session' = [engine |-> NewEngine(ct), op |-> "init", batch |-> <<>>, ret |-> <<>>,
                    history |-> <<>>,
                    previous |-> [chaining_type |-> session.engine.chaining_type,
                                  outcomes |-> Outcomes(session.history)]]
    /\ UNCHANGED <<engine_vars, cr, tlog, rcall, shared, more_vars>>

InitSession ==
    /\ EngineInit("both")
    /\ ResolverInit(CONFLICT_RESOLUTION_STRATEGY)
    /\ LoggerInit(MAX_TRACE_DEPTH)
    /\ RuleInit(<<>>)
    /\ \E ct \in ChainingTypes : SessionInit(ct, NoPrevious)
    /\ SharedInit
    /\ MoreInit

NextSession ==
    \/ SsEvaluateApplicant
    \/ SsEvaluateBatch
    \/ SsConstruct

SpecSession == InitSession /\ [][NextSession]_vars

(***************************************************************************)
(* Actions of two concurrent calls of infer on the shared chainer.         *)
(***************************************************************************)
\* forward_chain.infer(applicant) is called in thread t.
CcCall(t) ==
    /\ shared.thread[t].pc = "idle"
    /\ \E a \in ConcurrentFacts :
        shared' = [shared EXCEPT !.thread[t] =
                      [pc |-> "start", applicant |-> a, calls |-> LoggerCalls(a),
                       next |-> 1, own |-> 0, ret |-> 0]]
    /\ UNCHANGED <<engine_vars, cr, tlog, rcall, session, more_vars>>

\* infer in thread t calls trace_logger.start: the logger binds a new list
\* and logs the Starting entry.
CcStart(t) ==
    /\ shared.thread[t].pc = "start"
    /\ \E tl \in {start(shared.tl, "Forward Chaining", shared.thread[t].applicant.applicant_id)} :
       \E h \in {StartList(shared.lists)} :
        shared' = [shared EXCEPT !.tl = tl, !.lists = Logged(h, tl.trace),
                                 !.thread[t].pc = "log", !.thread[t].next = 2,
                                 !.thread[t].own = h.cur]
    /\ UNCHANGED <<engine_vars, cr, tlog, rcall, session, more_vars>>

\* infer in thread t makes its next call of trace_logger.log.
CcLog(t) ==
    /\ shared.thread[t].pc = "log"
    /\ shared.thread[t].next <= Len(shared.thread[t].calls)
    /\ \E e \in {shared.thread[t].calls[shared.thread[t].next]} :
       \E tl \in {log(shared.tl, e.level, e.message, e.rule_id)} :
        shared' = [shared EXCEPT !.tl = tl, !.lists = Logged(shared.lists, tl.trace),
                                 !.thread[t].next = @ + 1]
    /\ UNCHANGED <<engine_vars, cr, tlog, rcall, session, more_vars>>

\* infer in thread t takes get_summary() and returns: the trace returned is
\* the list the logger is bound to now.
CcReturn(t) ==
    /\ shared.thread[t].pc = "log"
    /\ shared.thread[t].next > Len(shared.thread[t].calls)
    /\ shared' = [shared EXCEPT !.thread[t].pc = "returned",
                                 !.thread[t].ret = shared.lists.cur]
    /\ UNCHANGED <<engine_vars, cr, tlog, rcall, session, more_vars>>

\* RuleEngine(): after both calls returned the application is started anew.
CcConstruct ==
    /\ \A t \in Threads : shared.thread[t].pc = "returned"
    /\ shared' = [tl |-> TraceLogger(MAX_TRACE_DEPTH), lists |-> NewLists,
                  thread |-> [t \in Threads |-> NoCall]]
    /\ UNCHANGED <<engine_vars, cr, tlog, rcall, session, more_vars>>

InitConcurrent ==
    /\ EngineInit("both")
    /\ ResolverInit(CONFLICT_RESOLUTION_STRATEGY)
    /\ LoggerInit(MAX_TRACE_DEPTH)
    /\ RuleInit(<<>>)
    /\ SessionInit("both", NoPrevious)
    /\ SharedInit
    /\ MoreInit

NextConcurrent ==
    \/ \E t \in Threads : CcCall(t)
    \/ \E t \in Threads : CcStart(t)
    \/ \E t \in Threads : CcLog(t)
    \/ \E t \in Threads : CcReturn(t)
    \/ CcConstruct

SpecConcurrent == InitConcurrent /\ [][NextConcurrent]_vars

(***************************************************************************)
(* Properties.                                                             *)
(***************************************************************************)
\* A rule is satisfied by an applicant when every antecedent holds.
Satisfied(rule, a) ==
    \A i \in 1..Len(rule.antecedents) :
        _evaluate_condition(a, rule.antecedents[i].attr, rule.antecedents[i].operator,
                            rule.antecedents[i].value)

\* The consequents of the rules of the rule base the applicant satisfies.
SatisfiedConsequents ==
    { rule_base[i].consequent : i \in { j \in 1..Len(rule_base) : Satisfied(rule_base[j], applicant) } }

Precedence(d) ==
    CASE d = "Reject Loan" -> 4
      [] d = "Manual Review" -> 3
      [] d = "Approve with Conditions" -> 2
      [] d = "Approve Loan" -> 1

ForwardRan == pc \in {"backward", "merge", "done"} /\ chaining_type \in {"forward", "both"}
BackwardRan == pc \in {"merge", "done"} /\ chaining_type \in {"backward", "both"}

FcDecision == results.forward_chaining[1].decision
BcDecision == results.backward_chaining[1].decision

\* The decisions of a dict whose group is not empty.
NonEmptyGroups(items) == { items[i][1] : i \in { j \in 1..Len(items) : Len(items[j][2]) > 0 } }

\* C1: resolve_by_decision on a dict with at least two non-empty groups
\* returns the decision of the highest precedence among the non-empty groups.
C1_HighestPrecedenceWins ==
    (cr.op = "resolve_by_decision" /\ Cardinality(NonEmptyGroups(cr.rules_by_decision)) >= 2)
    => /\ cr.decision \in NonEmptyGroups(cr.rules_by_decision)
       /\ \A d \in NonEmptyGroups(cr.rules_by_decision) : Precedence(cr.decision) >= Precedence(d)

\* C2: for an Unemployed applicant forward chaining returns Reject Loan and
\* backward chaining returns Reject Loan.
C2_UnemployedRejected ==
    applicant.employment_status = "Unemployed"
    => /\ ForwardRan => FcDecision = "Reject Loan"
       /\ BackwardRan => BcDecision = "Reject Loan"

\* C3: for an applicant under 21 the final decision of evaluate_applicant is
\* Reject Loan, for each chaining type.
C3_Under21Rejected ==
    (pc = "done" /\ applicant.age < 21) => results.final_decision = "Reject Loan"

\* C4: with both strategies the final decision is the common decision with
\* the "both agree" reasoning, or on disagreement the decision of the higher
\* precedence with both decisions in the reasoning; with one strategy it is
\* that strategy's decision, the other result and the reasoning are absent.
C4_MergePolicy ==
    pc = "done" =>
        CASE chaining_type = "both" ->
               /\ results.final_decision \in {FcDecision, BcDecision}
               /\ FcDecision = BcDecision =>
                    results.reasoning = <<"Both forward and backward chaining agree">>
               /\ FcDecision /= BcDecision =>
                    /\ Precedence(results.final_decision) >= Precedence(FcDecision)
                    /\ Precedence(results.final_decision) >= Precedence(BcDecision)
                    /\ results.reasoning =
                         <<"Forward chaining", FcDecision, "Backward chaining", BcDecision>>
          [] chaining_type = "forward" ->
               /\ results.final_decision = FcDecision
               /\ results.backward_chaining = None
               /\ results.reasoning = None
          [] chaining_type = "backward" ->
               /\ results.final_decision = BcDecision
               /\ results.forward_chaining = None
               /\ results.reasoning = None

C4_Witness ==
    /\ pc = "done"
    /\ chaining_type = "both"
    /\ FcDecision = "Manual Review"
    /\ BcDecision = "Reject Loan"
    /\ results.final_decision = "Reject Loan"
    /\ results.reasoning = <<"Forward chaining", "Manual Review", "Backward chaining", "Reject Loan">>

GoalOrder == <<"Reject Loan", "Approve Loan", "Approve with Conditions", "Manual Review">>

Provable(i) == GoalOrder[i] \in SatisfiedConsequents

\* C5: backward chaining returns the first goal of the order Reject Loan,
\* Approve Loan, Approve with Conditions, Manual Review that a satisfied rule
\* concludes; exactly the goals before it were attempted (and failed), none
\* after it; with no such goal it returns Manual Review.
C5_FirstProvableGoal ==
    BackwardRan =>
        IF \E i \in 1..4 : Provable(i)
        THEN \E i \in 1..4 :
                /\ Provable(i)
                /\ \A j \in 1..(i - 1) : ~Provable(j)
                /\ BcDecision = GoalOrder[i]
                /\ bc.proven_goals = {GoalOrder[i]}
                /\ bc.failed_goals = { GoalOrder[j] : j \in 1..(i - 1) }
        ELSE /\ BcDecision = "Manual Review"
             /\ bc.proven_goals = {}
             /\ bc.failed_goals = { GoalOrder[j] : j \in 1..4 }

C5_Witness ==
    /\ BackwardRan
    /\ Provable(1) /\ Provable(2)
    /\ BcDecision = "Reject Loan"
    /\ bc.failed_goals = {}

\* C6: forward chaining returns Manual Review when the applicant satisfies no
\* rule, and the common consequent when all the rules it satisfies have the
\* same one, in both cases without decision-level arbitration.
C6_ZeroOrOneDecision ==
    ForwardRan =>
        /\ SatisfiedConsequents = {} => (FcDecision = "Manual Review" /\ ~fc_run.arbitrated)
        /\ \A d \in SatisfiedConsequents :
              SatisfiedConsequents = {d} => (FcDecision = d /\ ~fc_run.arbitrated)

C6_Witness ==
    /\ ForwardRan
    /\ SatisfiedConsequents = {"Reject Loan"}
    /\ Len(fc_run.rules_fired) >= 2
    /\ FcDecision = "Reject Loan"

C6_WitnessNone ==
    /\ ForwardRan
    /\ SatisfiedConsequents = {}
    /\ FcDecision = "Manual Review"

\* C7: for an applicant with income > 60000 and credit score > 750 that
\* satisfies no rule of another consequent, forward chaining, backward
\* chaining and the final decision are Approve Loan.
C7_HighIncomeApproved ==
    (/\ applicant.income > 60000
     /\ applicant.credit_score > 750
     /\ SatisfiedConsequents \subseteq {"Approve Loan"})
    => /\ ForwardRan => FcDecision = "Approve Loan"
       /\ BackwardRan => BcDecision = "Approve Loan"
       /\ pc = "done" => results.final_decision = "Approve Loan"

C7_Witness ==
    /\ pc = "done"
    /\ chaining_type = "both"
    /\ applicant.applicant_id = "A1"
    /\ applicant.income = 70000 /\ applicant.credit_score = 760
    /\ FcDecision = "Approve Loan" /\ BcDecision = "Approve Loan"
    /\ results.final_decision = "Approve Loan"

RecognizedStrategies == {"priority", "specificity", "priority_specificity"}

\* The level of a priority name: High 3, Medium 2, Low 1, any other name 0.
LevelOf(p) ==
    CASE p = "High" -> 3
      [] p = "Medium" -> 2
      [] p = "Low" -> 1
      [] OTHER -> 0

\* w is at least as good as r under the strategy's key without the identifier.
AtLeastAsGood(st, w, r) ==
    IF st = "specificity"
    THEN \/ w.specificity > r.specificity
         \/ w.specificity = r.specificity /\ LevelOf(w.priority) >= LevelOf(r.priority)
    ELSE \/ LevelOf(w.priority) > LevelOf(r.priority)
         \/ LevelOf(w.priority) = LevelOf(r.priority) /\ w.specificity >= r.specificity

ResolvedConflict ==
    /\ cr.op = "resolve"
    /\ Len(cr.fired_rules) >= 2
    /\ cr.strategy \in RecognizedStrategies

\* C8: for two or more candidates resolve returns a candidate that is best
\* under the strategy's key: highest priority level then highest specificity
\* under priority and priority_specificity (which pick the same winner),
\* highest specificity then highest priority level under specificity.
C8_BestUnderKey ==
    ResolvedConflict =>
        /\ \E i \in 1..Len(cr.fired_rules) : cr.fired_rules[i] = cr.winner
        /\ \A i \in 1..Len(cr.fired_rules) :
              AtLeastAsGood(cr.strategy, cr.winner, cr.fired_rules[i])
        /\ cr.strategy = "priority" =>
              cr.winner = _resolve_by_priority_specificity(cr.fired_rules)
        /\ cr.strategy = "priority_specificity" =>
              cr.winner = _resolve_by_priority(cr.fired_rules)

\* Under priority a High rule beats Low rules of equal specificity, one of
\* them an earlier candidate.
C8_Witness ==
    /\ ResolvedConflict
    /\ cr.strategy = "priority"
    /\ Len(cr.fired_rules) = 3
    /\ cr.fired_rules[1].priority = "Low"
    /\ cr.fired_rules[2].priority = "High"
    /\ cr.fired_rules[3].priority = "Critical"
    /\ \A i \in 1..3 : cr.fired_rules[i].specificity = 2
    /\ cr.winner = cr.fired_rules[2]

\* Under specificity a Low rule of specificity 3 beats a High rule of
\* specificity 2.
C8_WitnessSpecificity ==
    /\ ResolvedConflict
    /\ cr.strategy = "specificity"
    /\ Len(cr.fired_rules) = 2
    /\ cr.fired_rules[1].priority = "High" /\ cr.fired_rules[1].specificity = 2
    /\ cr.fired_rules[2].priority = "Low" /\ cr.fired_rules[2].specificity = 3
    /\ cr.winner = cr.fired_rules[2]

\* The candidate list reordered by the permutation p of its indices.
Reordered(rules, p) == [i \in 1..Len(rules) |-> rules[p[i]]]

\* C9: for a recognized strategy and two or more candidates of distinct
\* identifiers, resolve returns the same winner for every permutation of the
\* candidate list, and among the candidates that tie with the winner on
\* priority level and specificity the winner has the greatest identifier.
C9_OrderIndependent ==
    ResolvedConflict =>
        /\ \A p \in Permutations(1..Len(cr.fired_rules)) :
              resolve(cr.strategy, Reordered(cr.fired_rules, p),
                      TraceLogger(MAX_TRACE_DEPTH)).winner = cr.winner
        /\ \A i \in 1..Len(cr.fired_rules) :
              (/\ cr.fired_rules[i] /= cr.winner
               /\ LevelOf(cr.fired_rules[i].priority) = LevelOf(cr.winner.priority)
               /\ cr.fired_rules[i].specificity = cr.winner.specificity)
              => StrLess(cr.fired_rules[i].rule_id, cr.winner.rule_id)

\* Three candidates tie on level and specificity; the winner, "R2", is the
\* first candidate and "R10" < "R2" as strings.
C9_Witness ==
    /\ ResolvedConflict
    /\ Len(cr.fired_rules) = 3
    /\ \A i \in 1..3 : /\ cr.fired_rules[i].specificity = 2
                        /\ cr.fired_rules[i].priority = "Low"
    /\ cr.fired_rules[1].rule_id = "R2"
    /\ cr.fired_rules[2].rule_id = "R10"
    /\ cr.fired_rules[3].rule_id = "R1"
    /\ cr.winner.rule_id = "R2"

Min(a, b) == IF a <= b THEN a ELSE b

\* C10: the trace never holds more entries than the capacity; it is the
\* first entries passed to log() since the trace was last emptied, up to the
\* capacity (later ones are dropped); the summary of a run that logged more
\* entries than the capacity has total_entries equal to the capacity.
C10_CapacityKept ==
    /\ Len(tlog.tl.trace) <= tlog.tl.max_depth
    /\ tlog.tl.trace = SubSeq(tlog.logged, 1, Min(Len(tlog.logged), tlog.tl.max_depth))
    /\ (tlog.op = "get_summary" /\ Len(tlog.logged) > tlog.tl.max_depth)
         => tlog.ret[1].total_entries = tlog.tl.max_depth

C10_Witness ==
    /\ tlog.op = "get_summary"
    /\ tlog.tl.max_depth = MaxCapacity
    /\ tlog.tl.start_time /= PyNone
    /\ Len(tlog.logged) > tlog.tl.max_depth
    /\ tlog.logged[1].level = "SYSTEM"
    /\ Len(tlog.tl.trace) = MaxCapacity
    /\ tlog.ret[1].total_entries = MaxCapacity

\* C19: the decision field of the applicant is absent before the sub-engines
\* run, holds the decision of the sub-engine that ran last until the
\* orchestrator writes, and equals the returned final_decision when
\* evaluate_applicant returns, for every chaining type.
C19_OrchestratorWritesLast ==
    /\ pc \in {"idle", "forward"} => applicant.decision = PyNone
    /\ (pc = "backward" /\ chaining_type \in {"forward", "both"})
         => applicant.decision = FcDecision
    /\ (pc = "merge" /\ chaining_type \in {"backward", "both"})
         => applicant.decision = BcDecision
    /\ (pc = "merge" /\ chaining_type = "forward") => applicant.decision = FcDecision
    /\ pc = "done" => applicant.decision = results.final_decision

\* The orchestrator's write replaces the decision backward chaining wrote last.
C19_Witness ==
    /\ pc = "done"
    /\ chaining_type = "both"
    /\ FcDecision = "Manual Review"
    /\ BcDecision = "Approve with Conditions"
    /\ results.final_decision = "Manual Review"
    /\ applicant.decision = "Manual Review"

\* C17: change_conflict_strategy stores whatever string it is given as the
\* active strategy; under a strategy that is none of priority, specificity and
\* priority_specificity resolve on two or more candidates returns the first
\* candidate; resolve on exactly one candidate returns that candidate and logs
\* no conflict, whatever the strategy.
C17_AnyStrategyStored ==
    /\ cr.op = "change_conflict_strategy" => cr.strategy = cr.requested
    /\ (cr.op = "resolve" /\ Len(cr.fired_rules) >= 2
           /\ cr.strategy \notin RecognizedStrategies)
         => cr.winner = cr.fired_rules[1]
    /\ (cr.op = "resolve" /\ Len(cr.fired_rules) = 1)
         => /\ cr.winner = cr.fired_rules[1]
            /\ cr.tl.trace = <<>>

\* The empty string was stored and the first candidate won against a later
\* candidate of higher priority and specificity.
C17_Witness ==
    /\ cr.op = "resolve"
    /\ cr.strategy = ""
    /\ Len(cr.fired_rules) = 2
    /\ cr.fired_rules[1].priority = "Low" /\ cr.fired_rules[1].specificity = 2
    /\ cr.fired_rules[2].priority = "High" /\ cr.fired_rules[2].specificity = 3
    /\ cr.winner = cr.fired_rules[1]

\* One candidate under an unrecognized strategy: returned, nothing logged.
C17_WitnessOne ==
    /\ cr.op = "resolve"
    /\ cr.strategy = "round_robin"
    /\ Len(cr.fired_rules) = 1
    /\ cr.winner = cr.fired_rules[1]
    /\ cr.tl.trace = <<>>

\* What a condition says of an applicant: the attribute is present and
\* stands in the named relation to the value.  A str and an int are
\* different values and stand in no order.
Holds(a, c) ==
    /\ c.attr \in DOMAIN a
    /\ \/ c.operator = ">" /\ IsStr(a[c.attr]) = IsStr(c.value) /\ a[c.attr] > c.value
       \/ c.operator = ">=" /\ IsStr(a[c.attr]) = IsStr(c.value) /\ a[c.attr] >= c.value
       \/ c.operator = "<" /\ IsStr(a[c.attr]) = IsStr(c.value) /\ a[c.attr] < c.value
       \/ c.operator = "<=" /\ IsStr(a[c.attr]) = IsStr(c.value) /\ a[c.attr] <= c.value
       \/ c.operator = "==" /\ IsStr(a[c.attr]) = IsStr(c.value) /\ a[c.attr] = c.value
       \/ c.operator = "!=" /\ (IsStr(a[c.attr]) /= IsStr(c.value) \/ a[c.attr] /= c.value)
       \/ c.operator = "in_range" /\ ~IsStr(a[c.attr]) /\ a[c.attr] \in c.value[1]..c.value[2]

\* The conditions of the called rule that do not hold of the applicant.
Unsatisfied ==
    { i \in 1..Len(rcall.rule.antecedents) : ~Holds(rcall.applicant, rcall.rule.antecedents[i]) }

\* C20: Rule.evaluate returns true iff every antecedent condition holds of
\* the applicant, testing the conditions in order up to and including the
\* first that does not hold; with zero antecedents it returns true for every
\* applicant; in_range holds iff lo <= value <= hi.
C20_Conjunctive ==
    rcall.op = "evaluate" =>
        /\ rcall.ret = (Unsatisfied = {})
        /\ Len(rcall.rule.antecedents) = 0 => rcall.ret
        /\ Unsatisfied = {} => rcall.examined = Len(rcall.rule.antecedents)
        /\ Unsatisfied /= {} =>
              /\ rcall.examined \in Unsatisfied
              /\ \A i \in Unsatisfied : rcall.examined <= i

\* Both conditions hold, the in_range one at the upper end of its range.
C20_Witness ==
    /\ rcall.op = "evaluate"
    /\ Len(rcall.rule.antecedents) = 2
    /\ rcall.rule.antecedents[1] = Cond("income", ">", 60000)
    /\ rcall.rule.antecedents[2] = Cond("credit_score", "in_range", <<600, 700>>)
    /\ rcall.applicant.credit_score = 700
    /\ rcall.ret
    /\ rcall.examined = 2

\* The first of two conditions does not hold: the second is not tested.
C20_WitnessStops ==
    /\ rcall.op = "evaluate"
    /\ Len(rcall.rule.antecedents) = 2
    /\ Unsatisfied = {1}
    /\ ~rcall.ret
    /\ rcall.examined = 1

\* A rule of zero antecedents returns true.
C20_WitnessEmpty ==
    /\ rcall.op = "evaluate"
    /\ Len(rcall.rule.antecedents) = 0
    /\ rcall.ret

\* The comparators Rule._evaluate_condition knows.
Comparators == {">", ">=", "<", "<=", "==", "!=", "in_range"}

\* A condition that cannot be tested on the applicant: its attribute is
\* absent, its comparator is unknown, or its operand and the attribute's
\* value are of different types.
Malformed(a, c) ==
    \/ c.attr \notin DOMAIN a
    \/ c.operator \notin Comparators
    \/ /\ c.attr \in DOMAIN a
       /\ IF c.operator = "in_range" THEN IsStr(a[c.attr]) /= IsStr(c.value[1])
          ELSE IsStr(a[c.attr]) /= IsStr(c.value)

\* The conditions of the called rule that cannot be tested on the applicant.
MalformedConditions ==
    { i \in 1..Len(rcall.rule.antecedents) :
        Malformed(rcall.applicant, rcall.rule.antecedents[i]) }

\* C21: conditions fail closed: a rule with a condition whose attribute is
\* absent, whose operand type is incompatible with the attribute's value or
\* whose comparator is unknown evaluates to false, for every comparator
\* including !=, so that a malformed field never fires a rule.
C21_FailClosed ==
    (rcall.op = "evaluate" /\ MalformedConditions /= {}) => ~rcall.ret

\* Apart from != between values of different types, a rule with a condition
\* that cannot be tested evaluates to false.
C21_FailClosedButNotEqual ==
    (/\ rcall.op = "evaluate"
     /\ \E i \in MalformedConditions :
            \/ rcall.rule.antecedents[i].operator /= "!="
            \/ rcall.rule.antecedents[i].attr \notin DOMAIN rcall.applicant)
        => ~rcall.ret

\* The positions of the rules of an identifier, and of a consequent.
WithId(rules, rule_id) == { i \in 1..Len(rules) : rules[i].rule_id = rule_id }

WithConsequent(rules, consequent) == { i \in 1..Len(rules) : rules[i].consequent = consequent }

\* s lists the elements of t at the positions of keep, in the order of t.
SelectsInOrder(s, t, keep) ==
    /\ Len(s) = Cardinality(keep)
    /\ \A i \in keep : s[Cardinality({ j \in keep : j <= i })] = t[i]

\* C23: after any sequence of add_rule and remove_rule calls, get_rule_by_id
\* returns a present rule of the identifier iff there is one and None
\* otherwise; get_rules_by_consequent returns exactly the present rules of
\* the consequent in insertion order; remove_rule removes every rule of the
\* identifier, keeps the others in their order, and changes nothing for an
\* unknown identifier.
C23_RuleBaseQueries ==
    /\ rb.op = "get_rule_by_id" =>
          /\ rb.rules = rb.before
          /\ IF WithId(rb.rules, rb.arg) = {} THEN rb.ret = None
             ELSE \E i \in WithId(rb.rules, rb.arg) : rb.ret = rb.rules[i]
    /\ rb.op = "get_rules_by_consequent" =>
          /\ rb.rules = rb.before
          /\ SelectsInOrder(rb.ret, rb.rules, WithConsequent(rb.rules, rb.arg))
    /\ rb.op = "remove_rule" =>
          /\ WithId(rb.rules, rb.arg) = {}
          /\ SelectsInOrder(rb.rules, rb.before,
                            (1..Len(rb.before)) \ WithId(rb.before, rb.arg))
          /\ WithId(rb.before, rb.arg) = {} => rb.rules = rb.before

\* Two rules of the identifier R1 are present: remove_rule drops both and
\* keeps the other rules in their order.
C23_Witness ==
    /\ rb.op = "remove_rule"
    /\ rb.arg = "R1"
    /\ Cardinality(WithId(rb.before, "R1")) = 2
    /\ Len(rb.rules) = Len(rb.before) - 2
    /\ Len(rb.rules) >= 2

\* A rule was added and another removed: the rules of a consequent are
\* returned in insertion order, the added one last.
C23_WitnessByConsequent ==
    /\ rb.op = "get_rules_by_consequent"
    /\ rb.arg = "Approve Loan"
    /\ Len(rb.rules) = 8
    /\ Len(rb.ret) = 2
    /\ rb.ret[1] = rb.rules[1] /\ rb.ret[2] = rb.rules[8]
    /\ rb.ret[1].specificity = 2 /\ rb.ret[2].specificity = 1

\* An identifier no rule has: None; an identifier two rules have: the first.
C23_WitnessAbsent ==
    /\ rb.op = "get_rule_by_id" /\ rb.arg = "R9" /\ rb.ret = None

C23_WitnessFirst ==
    /\ rb.op = "get_rule_by_id" /\ rb.arg = "R1"
    /\ Cardinality(WithId(rb.rules, "R1")) = 2
    /\ rb.ret = rb.rules[1]

\* Forward (backward) chaining has returned in the current evaluation, which
\* may since have raised.
ForwardReturned ==
    pc \in {"backward", "merge", "done", "raised"} /\ chaining_type \in {"forward", "both"}
BackwardReturned ==
    pc \in {"merge", "done", "raised"} /\ chaining_type \in {"backward", "both"}

\* The last entry of the trace is the DECISION entry of the decision.
LastIsDecision(trace, decision) ==
    /\ Len(trace) > 0
    /\ trace[Len(trace)].level = "DECISION"
    /\ trace[Len(trace)].message = <<"Final Decision", decision>>

\* The default outcome of the chainers is returned and logged last.
DefaultLogged ==
    /\ (ForwardReturned /\ fc_run.rules_fired = <<>>) =>
          /\ FcDecision = "Manual Review"
          /\ LastIsDecision(results.forward_chaining[1].trace.trace, "Manual Review")
    /\ (BackwardReturned /\ bc.proven_goals = {}) =>
          /\ BcDecision = "Manual Review"
          /\ LastIsDecision(results.backward_chaining[1].trace.trace, "Manual Review")

\* C24: when forward chaining fires no rule, or backward chaining proves no
\* goal, the run returns Manual Review and the last entry of the returned
\* trace is the DECISION entry recording Manual Review, for the built-in
\* rule base and for every rule base enlarged by add_rule, under the trace
\* capacity of 50.
C24_DefaultLogged == fc_logger.max_depth = MAX_TRACE_DEPTH => DefaultLogged

\* With at most ten rules added the default outcome is logged last.
C24_DefaultLoggedUpToTen ==
    Len(rule_base) <= Len(_initialize_rules) + 10 => DefaultLogged

\* The fired counts of the rules, in rule base order.
FiredCounts(rules) == [i \in 1..Len(rules) |-> rules[i].fired_count]

\* C26: no evaluation changes a fired count: the steps of evaluate_applicant
\* (the call, forward chaining, backward chaining, the merge) leave the
\* fired count of every rule as it was, although they record rules as
\* fired; between evaluations a step changes the counts only by adding
\* exactly 1 to one rule (fire) or setting all of them to 0
\* (reset_fired_counts); the rules of a new engine have count 0.
C26_FiredCountFrame ==
    [][ /\ pc' /= "idle" => rule_base' = rule_base
        /\ (pc = "idle" /\ pc' = "idle") =>
              \/ \E i \in 1..Len(rule_base) :
                    rule_base' = [rule_base EXCEPT ![i].fired_count = @ + 1]
              \/ /\ FiredCounts(rule_base') = [i \in 1..Len(rule_base) |-> 0]
                 /\ rule_base' = [i \in 1..Len(rule_base) |->
                                    [rule_base[i] EXCEPT !.fired_count = 0]]
        /\ (pc /= "idle" /\ pc' = "idle") =>
              FiredCounts(rule_base') = [i \in 1..Len(rule_base') |-> 0]
      ]_vars

\* An evaluation recorded R1 as fired in both chainers and R1 still has the
\* count 0, while R8, fired twice by a caller before, still has the count 2.
C26_Witness ==
    /\ pc = "done"
    /\ chaining_type = "both"
    /\ fc_run.rules_fired = <<"R1">>
    /\ bc.proven_goals = {"Approve Loan"}
    /\ rule_base[1].rule_id = "R1" /\ rule_base[1].fired_count = 0
    /\ rule_base[8].rule_id = "R8" /\ rule_base[8].fired_count = 2

\* The decision backward chaining returns for the applicant when the call
\* has the chainer to itself.
SequentialDecision(a) ==
    BackwardInfer(rule_base, strategy, NewBackwardChaining, a).decision

\* The goals thread t had answered from the memo sets.
MemoAnswers(t) ==
    { i \in 1..Len(bshared.thread[t].answers) :
        bshared.thread[t].answers[i] \in {"already proven", "already failed"} }

\* C27: the proven and failed goal sets are shared by the calls of infer on
\* one chainer.  A call during which no other call wrote the sets (so every
\* call of a strictly sequential use, whatever the calls before it left in
\* the sets) answers no goal from them and returns the decision that
\* depends on its fact and the rule base alone; a call returns another
\* decision only when interleaved with another call, by answering a goal
\* 'already proven' or 'already failed' from what the other call wrote.
C27_SharedMemoInterference ==
    \A t \in Threads :
        bshared.thread[t].pc = "returned" =>
            /\ ~bshared.thread[t].interfered =>
                  /\ MemoAnswers(t) = {}
                  /\ bshared.thread[t].ret = SequentialDecision(bshared.thread[t].applicant)
            /\ bshared.thread[t].ret /= SequentialDecision(bshared.thread[t].applicant) =>
                  MemoAnswers(t) /= {}

\* The call for A1 found Reject Loan already proven, by the call for A5, and
\* returned Reject Loan, which no rule concludes for A1.
C27_Witness ==
    /\ bshared.thread[1].pc = "returned"
    /\ bshared.thread[1].applicant.applicant_id = "A1"
    /\ bshared.thread[2].applicant.applicant_id = "A5"
    /\ bshared.thread[1].answers = <<"already proven">>
    /\ bshared.thread[1].ret = "Reject Loan"
    /\ SatisfiedRules(rule_base, "Reject Loan", bshared.thread[1].applicant) = <<>>
    /\ SequentialDecision(bshared.thread[1].applicant) = "Approve Loan"

\* The call for A5 found Reject Loan already failed, by the call for A1, and
\* returned Manual Review although R4 rejects A5.
C27_WitnessFailed ==
    /\ bshared.thread[1].pc = "returned"
    /\ bshared.thread[1].applicant.applicant_id = "A5"
    /\ bshared.thread[2].applicant.applicant_id = "A1"
    /\ bshared.thread[1].answers[1] = "already failed"
    /\ bshared.thread[1].ret = "Manual Review"
    /\ SequentialDecision(bshared.thread[1].applicant) = "Reject Loan"

\* A call with no other call running: no goal is answered from the sets
\* and the decision is the one R4 supports for A5.
C27_WitnessSequential ==
    /\ bshared.thread[1].pc = "returned"
    /\ bshared.thread[2].pc = "idle"
    /\ bshared.thread[1].applicant.applicant_id = "A5"
    /\ bshared.thread[1].answers = <<"proven">>
    /\ bshared.thread[1].ret = "Reject Loan"

\* The identifiers of the rules of the rule base every condition of which
\* holds of the applicant, in rule base order, one entry per rule.
HoldingRuleIds ==
    LET AllHold(rule) == \A i \in 1..Len(rule.antecedents) : Holds(applicant, rule.antecedents[i])
    IN RuleIds(SelectSeq(rule_base, AllHold))

\* C14: forward chaining returns after at most 2 x |rule base| passes, none
\* for an empty rule base; the rules recorded as fired are the rules the
\* applicant satisfies, each recorded once, all of them fired in the first
\* pass, so that the loop ends with the first pass when it fires nothing and
\* with the second pass otherwise.
C14_ForwardHalts ==
    ForwardReturned =>
        /\ fc_run.iteration <= 2 * Len(rule_base)
        /\ Len(rule_base) = 0 => fc_run.iteration = 0
        /\ fc_run.rules_fired = HoldingRuleIds
        /\ Len(fc_run.rules_fired) <= Len(rule_base)
        /\ (Len(rule_base) > 0 /\ Len(HoldingRuleIds) = 0) => fc_run.iteration = 1
        /\ Len(HoldingRuleIds) > 0 => fc_run.iteration = 2

\* Two rules of the identifier R1 and an added rule fired, each recorded once,
\* and the loop ended with the second pass.
C14_Witness ==
    /\ ForwardReturned
    /\ Len(rule_base) = 9
    /\ fc_run.rules_fired = <<"R1", "R1">>
    /\ fc_run.iteration = 2

\* The rule base was emptied by remove_rule: no pass.
C14_WitnessEmpty ==
    /\ ForwardReturned
    /\ Len(rule_base) = 0
    /\ fc_run.iteration = 0
    /\ FcDecision = "Manual Review"

\* The entries of the backward trace whose message is m.
BcEntries(m) == { i \in 1..Len(bc.tl.trace) : bc.tl.trace[i].message = m }

FourGoals == { GoalOrder[i] : i \in 1..Len(GoalOrder) }

\* C15: backward chaining returns for every rule base add_rule and
\* remove_rule lead to; in a run each goal is attempted at most once, and
\* proved at depth 0 (never answered from the proven or failed sets, never
\* stopped by the depth guard of 10); the proven and the failed goals are
\* disjoint and at most one goal is proven.
C15_BackwardHalts ==
    BackwardReturned =>
        /\ bc.proven_goals \cap bc.failed_goals = {}
        /\ Cardinality(bc.proven_goals) <= 1
        /\ bc.proven_goals \cup bc.failed_goals \subseteq FourGoals
        /\ \A g \in FourGoals :
              /\ Cardinality(BcEntries(<<"Attempting to prove goal", g>>)) <= 1
              /\ Cardinality(BcEntries(<<"Proving goal", g>>))
                    = Cardinality(BcEntries(<<"Attempting to prove goal", g>>))
              /\ BcEntries(<<"Goal already proven", g>>) = {}
              /\ BcEntries(<<"Goal already failed", g>>) = {}
              /\ (g \in bc.proven_goals \cup bc.failed_goals)
                    <=> BcEntries(<<"Attempting to prove goal", g>>) /= {}
        /\ \A i \in 1..Len(bc.tl.trace) :
              /\ bc.tl.trace[i].message[1] /= "  "
              /\ bc.tl.trace[i].message[Len(bc.tl.trace[i].message)]
                    /= "Max recursion depth reached"

\* On a rule base with an added rule of a consequent that is no goal, all
\* four goals were attempted once and failed.
C15_Witness ==
    /\ BackwardReturned
    /\ \E i \in 1..Len(rule_base) : rule_base[i].consequent = "Escalate"
    /\ bc.proven_goals = {}
    /\ bc.failed_goals = FourGoals
    /\ \A g \in FourGoals : Cardinality(BcEntries(<<"Proving goal", g>>)) = 1
    /\ BcDecision = "Manual Review"

\* Two rules of the identifier R1 prove Approve Loan after Reject Loan failed.
C15_WitnessProven ==
    /\ BackwardReturned
    /\ Len(get_rules_by_consequent(rule_base, "Approve Loan")) = 2
    /\ bc.proven_goals = {"Approve Loan"}
    /\ bc.failed_goals = {"Reject Loan"}

\* C16: on every rule base add_rule and remove_rule lead to, for every
\* applicant and every strategy, evaluate_applicant does not raise: it returns
\* a result with a final decision.
C16_NeverRaises ==
    /\ pc /= "raised"
    /\ pc = "done" => results.final_decision /= PyNone

\* The trace list a part (decision, trace) of a results dict refers to, as
\* it is now among the lists of the logger.
FcTrace(res) == session.engine.fc_lists.lists[res.forward_chaining[1].trace]
BcTrace(res) == session.engine.bc_lists.lists[res.backward_chaining[1].trace]

\* The entries of a trace that open a run.
Starts(trace) == { i \in 1..Len(trace) : trace[i].message[1] = "Starting" }

\* The trace t, returned with the summary part for the applicant a, is the
\* trace of one run of the chainer named: it opens with the SYSTEM entry
\* Starting <chainer> for a, holds no other Starting entry, has the length
\* the summary gave and is the trace fresh of the same run on a new logger.
OneRun(t, part, chainer, a, fresh) ==
    /\ Len(t) > 0
    /\ t[1] = Entry("SYSTEM", <<"Starting", chainer, a.applicant_id>>, PyNone)
    /\ Starts(t) = {1}
    /\ Len(t) = part.total_entries
    /\ t = fresh

\* C11: on one engine used sequentially, the trace every run returned is,
\* after whatever runs followed, the trace of that run alone (it opens with
\* the Starting entry of that run's applicant and holds the entries of that
\* run only), and no two runs returned the same list.
C11_TraceOfOneRun ==
    \A k \in 1..Len(session.history) :
        /\ session.history[k].forward_chaining /= None =>
              /\ OneRun(FcTrace(session.history[k]), session.history[k].forward_chaining[1],
                        "Forward Chaining", session.history[k].applicant_data,
                        ForwardInfer(_initialize_rules, CONFLICT_RESOLUTION_STRATEGY,
                                     TraceLogger(MAX_TRACE_DEPTH),
                                     session.history[k].applicant_data).tl.trace)
              /\ \A j \in 1..(k - 1) :
                    session.history[j].forward_chaining[1].trace
                       /= session.history[k].forward_chaining[1].trace
        /\ session.history[k].backward_chaining /= None =>
              /\ OneRun(BcTrace(session.history[k]), session.history[k].backward_chaining[1],
                        "Backward Chaining", session.history[k].applicant_data,
                        BackwardInfer(_initialize_rules, CONFLICT_RESOLUTION_STRATEGY,
                                      NewBackwardChaining,
                                      session.history[k].applicant_data).bc.tl.trace)
              /\ \A j \in 1..(k - 1) :
                    session.history[j].backward_chaining[1].trace
                       /= session.history[k].backward_chaining[1].trace

\* A5 then A1 were evaluated by one engine with both chainers: the traces
\* returned for A5 still open with the Starting entries for A5.
C11_Witness ==
    /\ Len(session.history) = 2
    /\ session.engine.chaining_type = "both"
    /\ session.history[1].applicant_data.applicant_id = "A5"
    /\ session.history[2].applicant_data.applicant_id = "A1"
    /\ FcTrace(session.history[1])[1].message = <<"Starting", "Forward Chaining", "A5">>
    /\ BcTrace(session.history[1])[1].message = <<"Starting", "Backward Chaining", "A5">>
    /\ FcTrace(session.history[2])[1].message = <<"Starting", "Forward Chaining", "A1">>

\* C13: two evaluations of the same applicant attributes give the same
\* forward, backward and final decisions and the same total_entries,
\* rules_fired and conflicts_resolved, whether both ran one after the other
\* on one engine or each on a fresh engine of the same chaining type.
C13_Deterministic ==
    /\ \A j, k \in 1..Len(session.history) :
          session.history[j].applicant_data = session.history[k].applicant_data
            => Outcome(session.history[j]) = Outcome(session.history[k])
    /\ session.previous.chaining_type = session.engine.chaining_type =>
          \A j \in 1..Len(session.previous.outcomes) : \A k \in 1..Len(session.history) :
              session.previous.outcomes[j].applicant_data = session.history[k].applicant_data
                => session.previous.outcomes[j] = Outcome(session.history[k])

\* A5 was evaluated first on a fresh engine, then first and again on another
\* fresh engine, with both chainers: two rules fired in forward chaining,
\* which returned Manual Review, and backward chaining proved Reject Loan.
C13_Witness ==
    /\ session.engine.chaining_type = "both"
    /\ session.previous.chaining_type = "both"
    /\ Len(session.previous.outcomes) >= 1
    /\ session.previous.outcomes[1].applicant_data.applicant_id = "A5"
    /\ Len(session.history) = 2
    /\ session.history[1].applicant_data.applicant_id = "A5"
    /\ session.history[2].applicant_data.applicant_id = "A5"
    /\ session.history[2].forward_chaining[1].decision = "Manual Review"
    /\ session.history[2].forward_chaining[1].rules_fired = 2
    /\ session.history[2].backward_chaining[1].decision = "Reject Loan"
    /\ session.history[2].final_decision = "Reject Loan"

\* C18: evaluate_batch returns one result per applicant of its input, in
\* input order, and the decisions (and entry counts) of the i-th result are
\* those of evaluating the i-th applicant alone on a fresh engine of the same
\* chaining type, whatever the engine evaluated before.
C18_BatchIsPointwise ==
    session.op = "evaluate_batch" =>
        /\ Len(session.ret) = Len(session.batch)
        /\ \A i \in 1..Len(session.batch) :
              /\ session.ret[i].applicant_data = session.batch[i]
              /\ session.ret[i].applicant_id = session.batch[i].applicant_id
              /\ Outcome(session.ret[i])
                   = Outcome(evaluate_applicant(NewEngine(session.engine.chaining_type),
                                                session.batch[i]).results)

\* The batch A5, A1 on an engine with both chainers: Reject Loan for A5 (on
\* which the chainers disagree), then Approve Loan for A1.
C18_Witness ==
    /\ session.op = "evaluate_batch"
    /\ session.engine.chaining_type = "both"
    /\ Len(session.batch) = 2
    /\ session.batch[1].applicant_id = "A5"
    /\ session.batch[2].applicant_id = "A1"
    /\ session.ret[1].forward_chaining[1].decision = "Manual Review"
    /\ session.ret[1].final_decision = "Reject Loan"
    /\ session.ret[2].final_decision = "Approve Loan"

\* The other of the two threads.
Other(t) == CHOOSE u \in Threads : u /= t

\* The trace infer returned in thread t, as the list is now.
ReturnedTrace(t) == shared.lists.lists[shared.thread[t].ret]

StartingEntry(a) == Entry("SYSTEM", <<"Starting", "Forward Chaining", a.applicant_id>>, PyNone)

RECURSIVE IsSubsequence(_, _)
\* The entries of a occur in b in the order of a.
IsSubsequence(a, b) ==
    IF a = <<>> THEN TRUE
    ELSE IF b = <<>> THEN FALSE
    ELSE IF Head(a) = Head(b) THEN IsSubsequence(Tail(a), Tail(b))
    ELSE IsSubsequence(a, Tail(b))

\* C12: for a call of infer that has returned while another call shares the
\* logger: if the other call's start() came between its start() and its
\* return, the trace it returned is the list the other call started, which
\* opens with the other applicant's Starting entry and has lost the entries
\* this call logged before; otherwise the trace holds all entries of this
\* call in order, mixed with whatever the other call logged into the same
\* list, and is exactly this call's own entries when the other call had not
\* started before this call returned.
C12_SharedLoggerInterference ==
    \A t \in Threads :
        shared.thread[t].pc = "returned" =>
            /\ shared.thread[t].ret /= shared.thread[t].own =>
                  /\ shared.thread[t].ret = shared.thread[Other(t)].own
                  /\ ReturnedTrace(t)[1] = StartingEntry(shared.thread[Other(t)].applicant)
                  /\ ~IsSubsequence(shared.thread[t].calls, ReturnedTrace(t))
                       \/ shared.thread[t].applicant = shared.thread[Other(t)].applicant
            /\ shared.thread[t].ret = shared.thread[t].own =>
                  /\ ReturnedTrace(t)[1] = StartingEntry(shared.thread[t].applicant)
                  /\ IsSubsequence(shared.thread[t].calls, ReturnedTrace(t))
                  /\ (\/ shared.thread[Other(t)].pc \in {"idle", "start"}
                      \/ shared.thread[Other(t)].own > shared.thread[t].own)
                       => ReturnedTrace(t) = shared.thread[t].calls

\* The call for A1 returned a trace that opens with the Starting entry for
\* A5 and holds the R4 entries logged for A5: its own first entries are lost.
C12_Witness ==
    /\ shared.thread[1].pc = "returned"
    /\ shared.thread[1].applicant.applicant_id = "A1"
    /\ shared.thread[2].applicant.applicant_id = "A5"
    /\ ReturnedTrace(1)[1] = StartingEntry(shared.thread[2].applicant)
    /\ \E i \in 1..Len(ReturnedTrace(1)) :
          ReturnedTrace(1)[i] = Entry("RULE_FIRE", <<"R4", "fired", "Reject Loan">>, "R4")
    /\ ~IsSubsequence(shared.thread[1].calls, ReturnedTrace(1))

\* The call for A1 returned the list it started itself, with every entry of
\* its own and, among them, entries the call for A5 logged.
C12_WitnessForeign ==
    /\ shared.thread[1].pc = "returned"
    /\ shared.thread[1].applicant.applicant_id = "A1"
    /\ shared.thread[2].applicant.applicant_id = "A5"
    /\ shared.thread[1].ret = shared.thread[1].own
    /\ IsSubsequence(shared.thread[1].calls, ReturnedTrace(1))
    /\ \E i \in 1..Len(ReturnedTrace(1)) :
          ReturnedTrace(1)[i] = Entry("RULE_FIRE", <<"R4", "fired", "Reject Loan">>, "R4")

\* C22: in 'both' mode an applicant of the minimum credit score 300 gets the
\* final decision Reject Loan.
C22_MinimumCreditRejected ==
    (pc = "done" /\ chaining_type = "both" /\ applicant.credit_score = 300)
        => results.final_decision = "Reject Loan"

\* The consequent of highest precedence among the rules the applicant
\* satisfies, Manual Review when it satisfies none.
BestSatisfiedConsequent ==
    IF SatisfiedConsequents = {} THEN "Manual Review"
    ELSE CHOOSE d \in SatisfiedConsequents :
            \A e \in SatisfiedConsequents : Precedence(d) >= Precedence(e)

C25_WitnessReject ==
    /\ pc = "done"
    /\ chaining_type = "both"
    /\ SatisfiedConsequents = {"Reject Loan", "Manual Review"}
    /\ FcDecision = "Manual Review"
    /\ results.final_decision = "Reject Loan"

====
